---- MODULE Spec2Model ----
(***************************************************************************)
(* A model of the CMAF fragment writer (src/cmaf/cmaf_chunk_writer.rs) and *)
(* of the box codecs under src/mp4box.  Bytes are integers 0..255, a sink  *)
(* or a buffer is a sequence of bytes, an Option is the empty sequence     *)
(* (None) or a one-element sequence (Some(x)).                             *)
(***************************************************************************)
EXTENDS Integers, Sequences, FiniteSets, TLC

(* started, w, sink, hist, ret: a CmafChunkWriter, the bytes its sink has    *)
(* received, the calls made on it and the value its last write_sample       *)
(* returned.  codec: a box value, the bytes write_box produced for it, and  *)
(* what BoxHeader::read and read_box made of these bytes.                   *)
VARIABLES started, w, sink, hist, ret, codec, hw

vars == <<started, w, sink, hist, ret, codec, hw>>

(* ------------------------------ bounds -------------------------------- *)

MaxSamples == 2

MaxEmsgs == 2

MaxEnds == 2

MaxLateOps == 1

MaxSeqHeaderLen == 2

MaxUriLen == 2

MaxChildren == 2

MaxTrailing == 6

MaxTracks == 2

(* the most bytes that precede a colr box in its stream *)
MaxOffset == 3

(* --------------------------- Option, integers ------------------------- *)

None == <<>>

Some(x) == <<x>>

IsSome(o) == o # <<>>

Unwrap(o) == o[1]

(* The model's integers are 32-bit two's complement values: a u32 or an i32  *)
(* field holds the value's residue modulo 2^32 in -2^31 .. 2^31 - 1, so the  *)
(* casts between u32, i32 and a small usize keep the representation, and     *)
(* zero tests and equalities are those of the program.  A u64 that has to    *)
(* exceed this range is a pair of 32-bit words (hi, lo).                     *)
Pow2_16 == 65536

Pow2_24 == 16777216

U64(hi, lo) == [hi |-> hi, lo |-> lo]

RECURSIVE SumSeq(_)
SumSeq(s) == IF s = <<>> THEN 0 ELSE s[1] + SumSeq(Tail(s))

(* the 32-bit word of two 16-bit halves, as a residue *)
Word(h, l) == (IF h >= 32768 THEN h - Pow2_16 ELSE h) * Pow2_16 + l

(* m * n as u64, modulo 2^64, for a non-negative m and a u32 n: the long    *)
(* multiplication of their bytes                                            *)
MulU64(m, n) ==
    LET mb == [i \in 0..3 |-> (m \div (256 ^ i)) % 256]
        nb == [i \in 0..3 |-> (n \div (256 ^ i)) % 256]
        col == [k \in 0..7 |->
                   SumSeq([i \in 1..4 |->
                              IF k - (i - 1) \in 0..3
                              THEN mb[i - 1] * nb[k - (i - 1)]
                              ELSE 0])]
        acc[k \in 0..7] == col[k] + (IF k = 0 THEN 0 ELSE acc[k - 1] \div 256)
        byte == [k \in 0..7 |-> acc[k] % 256]
    IN  U64(Word(byte[7] * 256 + byte[6], byte[5] * 256 + byte[4]),
            Word(byte[3] * 256 + byte[2], byte[1] * 256 + byte[0]))

RECURSIVE BitAnd(_, _)
BitAnd(a, b) ==
    IF a = 0 \/ b = 0 THEN 0
    ELSE (IF a % 2 = 1 /\ b % 2 = 1 THEN 1 ELSE 0) + 2 * BitAnd(a \div 2, b \div 2)

RECURSIVE BitOr(_, _)
BitOr(a, b) ==
    IF a = 0 THEN b
    ELSE IF b = 0 THEN a
    ELSE (IF a % 2 = 1 \/ b % 2 = 1 THEN 1 ELSE 0) + 2 * BitOr(a \div 2, b \div 2)

RECURSIVE Flatten(_)
Flatten(ss) == IF ss = <<>> THEN <<>> ELSE ss[1] \o Flatten(Tail(ss))

RECURSIVE Repeat(_, _)
Repeat(x, n) == IF n = 0 THEN <<>> ELSE <<x>> \o Repeat(x, n - 1)

(* big-endian encoding of n in k bytes, as byteorder's write_uN::<BigEndian>; *)
(* \div and % round down, so a negative residue gives its two's complement   *)
RECURSIVE BE(_, _)
BE(n, k) == IF k = 0 THEN <<>> ELSE BE(n \div 256, k - 1) \o <<n % 256>>

(* big-endian decoding of the k bytes of buf that follow position pos *)
RECURSIVE RdBE(_, _, _)
RdBE(buf, pos, k) ==
    IF k = 0 THEN 0 ELSE RdBE(buf, pos, k - 1) * 256 + buf[pos + k]


(* ------------------- box framework (src/mp4box/mod.rs) ---------------- *)

HEADER_SIZE == 8

HEADER_EXT_SIZE == 4

FourCC_moof == <<109, 111, 111, 102>>

FourCC_mfhd == <<109, 102, 104, 100>>

FourCC_traf == <<116, 114, 97, 102>>

FourCC_tfhd == <<116, 102, 104, 100>>

FourCC_tfdt == <<116, 102, 100, 116>>

FourCC_trun == <<116, 114, 117, 110>>

FourCC_mdat == <<109, 100, 97, 116>>

FourCC_emsg == <<101, 109, 115, 103>>

FourCC_prft == <<112, 114, 102, 116>>

(* BoxHeader::new(name, size).write: a 32-bit size and the type, or the     *)
(* size 1, the type and a 64-bit largesize when the size exceeds 32 bits.   *)
BoxHeaderWrite(name, size) ==
    IF size \div Pow2_16 >= Pow2_16
    THEN BE(1, 4) \o name \o BE(size, 8)
    ELSE BE(size, 4) \o name

(* write_box_header_ext: the version byte, then the flags in 24 bits *)
write_box_header_ext(version, flags) == <<version>> \o BE(flags, 3)

(* read_u32::<BigEndian> at position pos (the bytes consumed so far) *)
RdU32(buf, pos) ==
    (IF buf[pos + 1] >= 128 THEN buf[pos + 1] - 256 ELSE buf[pos + 1]) * Pow2_24
        + RdBE(buf, pos + 1, 3)

Ok(v, pos) == [ok |-> TRUE, v |-> v, pos |-> pos]

Err(kind, what) == [ok |-> FALSE, kind |-> kind, what |-> what]

(* BoxHeader::read: the size and the type; a size of 1 announces a 64-bit   *)
(* largesize, of which the header's own 8 extra bytes are not counted.      *)
BoxHeaderRead(buf, pos) ==
    IF pos + 8 > Len(buf) THEN Err("IoError", "UnexpectedEof")
    ELSE LET size == RdU32(buf, pos)
             name == SubSeq(buf, pos + 5, pos + 8)
         IN  IF size = 1
             THEN IF pos + 16 > Len(buf) THEN Err("IoError", "UnexpectedEof")
                  ELSE LET large == U64(RdU32(buf, pos + 8), RdU32(buf, pos + 12))
                       IN  IF large.hi = 0 /\ large.lo = 0
                           THEN Ok([name |-> name, size |-> 0], pos + 16)
                           ELSE IF large.hi = 0 /\ large.lo \in 1..15
                           THEN Err("InvalidData", "64-bit box size too small")
                           ELSE IF large.hi = 0 /\ large.lo >= 16
                           THEN Ok([name |-> name, size |-> large.lo - 8], pos + 16)
                           ELSE Err("OutOfModel", "a size of 2^32 bytes or more")
             ELSE Ok([name |-> name, size |-> size], pos + 8)

(* ----------------- fragment boxes (mfhd, tfhd, tfdt, trun) ------------- *)

TFHD_FLAG_BASE_DATA_OFFSET == 1

TFHD_FLAG_SAMPLE_DESC == 2

TFHD_FLAG_DEFAULT_SAMPLE_DURATION == 8

TFHD_FLAG_DEFAULT_SAMPLE_SIZE == 16

TFHD_FLAG_DEFAULT_SAMPLE_FLAGS == 32

FLAG_DATA_OFFSET == 1

FLAG_FIRST_SAMPLE_FLAGS == 4

FLAG_SAMPLE_DURATION == 256

FLAG_SAMPLE_SIZE == 512

FLAG_SAMPLE_FLAGS == 1024

FLAG_SAMPLE_CTS == 2048

FLAG_SAMPLE_DEPENDS_YES == 16777216

FLAG_SAMPLE_DEPENDS_NO == 33554432

FLAG_SAMPLE_FLAG_IS_NON_SYNC == 65536

HasFlag(flags, bit) == BitAnd(flags, bit) > 0

OptBE(o, k) == IF IsSome(o) THEN BE(Unwrap(o), k) ELSE <<>>

MfhdSize(mfhd) == HEADER_SIZE + HEADER_EXT_SIZE + 4

MfhdWrite(mfhd) ==
    BoxHeaderWrite(FourCC_mfhd, MfhdSize(mfhd))
        \o write_box_header_ext(mfhd.version, mfhd.flags)
        \o BE(mfhd.sequence_number, 4)

TfhdSize(tfhd) ==
    HEADER_SIZE + HEADER_EXT_SIZE + 4
        + (IF HasFlag(tfhd.flags, TFHD_FLAG_BASE_DATA_OFFSET) THEN 8 ELSE 0)
        + (IF HasFlag(tfhd.flags, TFHD_FLAG_SAMPLE_DESC) THEN 4 ELSE 0)
        + (IF HasFlag(tfhd.flags, TFHD_FLAG_DEFAULT_SAMPLE_DURATION) THEN 4 ELSE 0)
        + (IF HasFlag(tfhd.flags, TFHD_FLAG_DEFAULT_SAMPLE_SIZE) THEN 4 ELSE 0)
        + (IF HasFlag(tfhd.flags, TFHD_FLAG_DEFAULT_SAMPLE_FLAGS) THEN 4 ELSE 0)

TfhdWrite(tfhd) ==
    BoxHeaderWrite(FourCC_tfhd, TfhdSize(tfhd))
        \o write_box_header_ext(tfhd.version, tfhd.flags)
        \o BE(tfhd.track_id, 4)
        \o OptBE(tfhd.base_data_offset, 8)
        \o OptBE(tfhd.sample_description_index, 4)
        \o OptBE(tfhd.default_sample_duration, 4)
        \o OptBE(tfhd.default_sample_size, 4)
        \o OptBE(tfhd.default_sample_flags, 4)

TfdtSize(tfdt) ==
    HEADER_SIZE + HEADER_EXT_SIZE + (IF tfdt.version = 1 THEN 8 ELSE 4)

TfdtWrite(tfdt) ==
    BoxHeaderWrite(FourCC_tfdt, TfdtSize(tfdt))
        \o write_box_header_ext(tfdt.version, tfdt.flags)
        \o (IF tfdt.version = 1
            THEN BE(tfdt.base_media_decode_time, 8)
            ELSE BE(tfdt.base_media_decode_time, 4))

TrunSize(trun) ==
    HEADER_SIZE + HEADER_EXT_SIZE + 4
        + (IF HasFlag(trun.flags, FLAG_DATA_OFFSET) THEN 4 ELSE 0)
        + (IF HasFlag(trun.flags, FLAG_FIRST_SAMPLE_FLAGS) THEN 4 ELSE 0)
        + (IF HasFlag(trun.flags, FLAG_SAMPLE_DURATION) THEN 4 * trun.sample_count ELSE 0)
        + (IF HasFlag(trun.flags, FLAG_SAMPLE_SIZE) THEN 4 * trun.sample_count ELSE 0)
        + (IF HasFlag(trun.flags, FLAG_SAMPLE_FLAGS) THEN 4 * trun.sample_count ELSE 0)
        + (IF HasFlag(trun.flags, FLAG_SAMPLE_CTS) THEN 4 * trun.sample_count ELSE 0)

TrunSampleWrite(trun, i) ==
    (IF HasFlag(trun.flags, FLAG_SAMPLE_DURATION) THEN BE(trun.sample_durations[i], 4) ELSE <<>>)
        \o (IF HasFlag(trun.flags, FLAG_SAMPLE_SIZE) THEN BE(trun.sample_sizes[i], 4) ELSE <<>>)
        \o (IF HasFlag(trun.flags, FLAG_SAMPLE_FLAGS) THEN BE(trun.sample_flags[i], 4) ELSE <<>>)
        \o (IF HasFlag(trun.flags, FLAG_SAMPLE_CTS) THEN BE(trun.sample_cts[i], 4) ELSE <<>>)

TrunWrite(trun) ==
    BoxHeaderWrite(FourCC_trun, TrunSize(trun))
        \o write_box_header_ext(trun.version, trun.flags)
        \o BE(trun.sample_count, 4)
        \o OptBE(trun.data_offset, 4)
        \o OptBE(trun.first_sample_flags, 4)
        \o Flatten([i \in 1..trun.sample_count |-> TrunSampleWrite(trun, i)])

(* TrunBox::duration: the sum of the run's sample durations, a u32 *)
TrunDuration(trun) == SumSeq(trun.sample_durations)

TrafSize(traf) ==
    HEADER_SIZE + TfhdSize(traf.tfhd)
        + (IF IsSome(traf.tfdt) THEN TfdtSize(Unwrap(traf.tfdt)) ELSE 0)
        + (IF IsSome(traf.trun) THEN TrunSize(Unwrap(traf.trun)) ELSE 0)

TrafWrite(traf) ==
    BoxHeaderWrite(FourCC_traf, TrafSize(traf))
        \o TfhdWrite(traf.tfhd)
        \o (IF IsSome(traf.tfdt) THEN TfdtWrite(Unwrap(traf.tfdt)) ELSE <<>>)
        \o (IF IsSome(traf.trun) THEN TrunWrite(Unwrap(traf.trun)) ELSE <<>>)

MoofSize(moof) ==
    HEADER_SIZE + MfhdSize(moof.mfhd)
        + SumSeq([i \in 1..Len(moof.trafs) |-> TrafSize(moof.trafs[i])])

MoofWrite(moof) ==
    BoxHeaderWrite(FourCC_moof, MoofSize(moof))
        \o MfhdWrite(moof.mfhd)
        \o Flatten([i \in 1..Len(moof.trafs) |-> TrafWrite(moof.trafs[i])])


(* ------------------------ prft (src/mp4box/prft.rs) -------------------- *)

PrftSize(prft) ==
    HEADER_SIZE + HEADER_EXT_SIZE + 4 + 8
        + (IF prft.version = 1 THEN 8 ELSE IF prft.version = 0 THEN 4 ELSE 0)

(* a wrong write_box: a media_time that does not fit is written as version 1 *)
PrftWrite_promoting(prft) ==
    LET version == IF prft.version = 0 /\ prft.media_time.hi # 0 THEN 1 ELSE prft.version
    IN  BoxHeaderWrite(FourCC_prft, PrftSize([prft EXCEPT !.version = version]))
            \o write_box_header_ext(version, prft.flags)
            \o BE(prft.reference_track_id, 4)
            \o BE(prft.ntp_timestamp.hi, 4) \o BE(prft.ntp_timestamp.lo, 4)
            \o (IF version = 0
                THEN BE(prft.media_time.lo, 4)
                ELSE BE(prft.media_time.hi, 4) \o BE(prft.media_time.lo, 4))

PrftWrite(prft) ==
    BoxHeaderWrite(FourCC_prft, PrftSize(prft))
        \o write_box_header_ext(prft.version, prft.flags)
        \o BE(prft.reference_track_id, 4)
        \o BE(prft.ntp_timestamp.hi, 4) \o BE(prft.ntp_timestamp.lo, 4)
        \o (IF prft.version = 0
            THEN BE(prft.media_time.lo, 4)
            ELSE BE(prft.media_time.hi, 4) \o BE(prft.media_time.lo, 4))

(* ------------------------- emsg (src/cmaf/emsg.rs) --------------------- *)

(* "https://aomedia.org/emsg/ID3" *)
Id3SchemeUri ==
    <<104, 116, 116, 112, 115, 58, 47, 47, 97, 111, 109, 101, 100, 105, 97, 46,
      111, 114, 103, 47, 101, 109, 115, 103, 47, 73, 68, 51>>

(* EmsgData::build_box for EmsgKind::Id3(data) *)
build_box(d) ==
    [version |-> 1, flags |-> 0, timescale |-> d.timescale,
     presentation_time |-> Some(d.presentation_time),
     presentation_time_delta |-> None,
     event_duration |-> d.event_duration, id |-> d.id,
     scheme_id_uri |-> Id3SchemeUri, message_data |-> d.data, value |-> <<>>]

EmsgSize(e) ==
    HEADER_SIZE + HEADER_EXT_SIZE + 4
        + (IF e.version = 1 THEN 16 ELSE 12)
        + (Len(e.scheme_id_uri) + 1) + (Len(e.value) + 1)
        + Len(e.message_data)

EmsgWrite(e) ==
    BoxHeaderWrite(FourCC_emsg, EmsgSize(e))
        \o write_box_header_ext(e.version, e.flags)
        \o (IF e.version = 1
            THEN BE(e.timescale, 4) \o OptBE(e.presentation_time, 8)
                 \o BE(e.event_duration, 4) \o BE(e.id, 4)
                 \o e.scheme_id_uri \o <<0>> \o e.value \o <<0>>
            ELSE e.scheme_id_uri \o <<0>> \o e.value \o <<0>>
                 \o BE(e.timescale, 4) \o OptBE(e.presentation_time_delta, 4)
                 \o BE(e.event_duration, 4) \o BE(e.id, 4))
        \o e.message_data


(* -------------- CmafChunkWriter (src/cmaf/cmaf_chunk_writer.rs) -------- *)

TfhdDefault ==
    [version |-> 0, flags |-> 0, track_id |-> 0, base_data_offset |-> None,
     sample_description_index |-> None, default_sample_duration |-> None,
     default_sample_size |-> None, default_sample_flags |-> None]

TrunDefault ==
    [version |-> 0, flags |-> 0, sample_count |-> 0, data_offset |-> None,
     first_sample_flags |-> None, sample_durations |-> <<>>, sample_sizes |-> <<>>,
     sample_flags |-> <<>>, sample_cts |-> <<>>]

(* #[derive(Default)] of CmafChunkWriter: the value before write_start *)
WriterDefault ==
    [traf |-> [tfhd |-> TfhdDefault, tfdt |-> None, trun |-> None],
     mfhd |-> [version |-> 0, flags |-> 0, sequence_number |-> 0],
     prft |-> None, emsgs |-> <<>>, samples |-> <<>>, timescale |-> 0]

write_start(track_id, config) ==
    [traf |->
        [tfhd |-> [TfhdDefault EXCEPT
                      !.track_id = track_id,
                      !.flags = BitOr(TFHD_FLAG_DEFAULT_SAMPLE_FLAGS,
                                  BitOr(TFHD_FLAG_DEFAULT_SAMPLE_DURATION,
                                        TFHD_FLAG_DEFAULT_SAMPLE_SIZE)),
                      !.default_sample_flags = Some(config.default_sample_flags),
                      !.default_sample_duration = Some(config.default_sample_duration),
                      !.default_sample_size = Some(config.default_sample_size)],
         tfdt |-> None,
         trun |-> None],
     mfhd |-> [version |-> 0, flags |-> 0, sequence_number |-> 0],
     prft |-> IF IsSome(config.producer_reference_time)
              THEN Some([version |-> 1, flags |-> 0, reference_track_id |-> track_id,
                         ntp_timestamp |-> Unwrap(config.producer_reference_time).ntp_timestamp,
                         media_time |-> Unwrap(config.producer_reference_time).media_time])
              ELSE None,
     emsgs |-> <<>>,
     samples |-> <<>>,
     timescale |-> config.timescale]

base_media_decode_time(wr) ==
    IF IsSome(wr.traf.tfdt) THEN Unwrap(wr.traf.tfdt).base_media_decode_time ELSE 0

sample_trun_flags(sample) ==
    IF sample.is_sync
    THEN FLAG_SAMPLE_DEPENDS_NO
    ELSE BitOr(FLAG_SAMPLE_DEPENDS_YES, FLAG_SAMPLE_FLAG_IS_NON_SYNC)

(* a decode time overwritten by every sample *)
tfdt_insert_always(tfdt, sample) ==
    Some([version |-> 1, flags |-> 0, base_media_decode_time |-> sample.start_time])

(* self.traf.tfdt.get_or_insert(TfdtBox { .. sample.start_time }) *)
tfdt_get_or_insert(tfdt, sample) ==
    IF IsSome(tfdt) THEN tfdt
    ELSE Some([version |-> 1, flags |-> 0, base_media_decode_time |-> sample.start_time])

has_first_sample_flags(tfhd, flags) == Some(flags) # tfhd.default_sample_flags

(* self.traf.trun.get_or_insert(TrunBox { .. }) *)
trun_get_or_insert(trun) ==
    IF IsSome(trun) THEN Unwrap(trun)
    ELSE [TrunDefault EXCEPT
             !.version = 1,
             !.data_offset = Some(0),
             !.flags = BitOr(FLAG_DATA_OFFSET, BitOr(FLAG_SAMPLE_DURATION, FLAG_SAMPLE_SIZE))]

(* an override taken from any sample that differs from the default *)
set_first_sample_flags_any(trun, has_first, nsamples, flags) ==
    IF has_first
    THEN [trun EXCEPT !.flags = BitOr(@, FLAG_FIRST_SAMPLE_FLAGS),
                      !.first_sample_flags = IF IsSome(@) THEN @ ELSE Some(flags)]
    ELSE trun

(* the override of the first sample's flags, lines 254-257 *)
set_first_sample_flags(trun, has_first, nsamples, flags) ==
    IF has_first /\ nsamples = 1
    THEN [trun EXCEPT !.flags = BitOr(@, FLAG_FIRST_SAMPLE_FLAGS),
                      !.first_sample_flags = IF IsSome(@) THEN @ ELSE Some(flags)]
    ELSE trun

(* appends that leave a zero composition offset out *)
push_sample_sparse_cts(trun, sample, nsamples, flags) ==
    [trun EXCEPT !.sample_count = nsamples,
                 !.sample_durations = Append(@, sample.duration),
                 !.sample_sizes = Append(@, Len(sample.bytes)),
                 !.sample_cts = IF sample.rendering_offset = 0 THEN @
                                ELSE Append(@, sample.rendering_offset),
                 !.sample_flags = Append(@, flags)]

(* the appends to the run, lines 259-263 *)
push_sample(trun, sample, nsamples, flags) ==
    [trun EXCEPT !.sample_count = nsamples,
                 !.sample_durations = Append(@, sample.duration),
                 !.sample_sizes = Append(@, Len(sample.bytes)),
                 !.sample_cts = Append(@, sample.rendering_offset),
                 !.sample_flags = Append(@, flags)]

(* a composition-offset flag decided by the first sample alone *)
set_cts_flag_once(trun) ==
    IF Len(trun.sample_cts) = 1 /\ trun.sample_cts[1] # 0
    THEN [trun EXCEPT !.flags = BitOr(@, FLAG_SAMPLE_CTS)]
    ELSE trun

(* the composition-offset flag, lines 265-267 *)
set_cts_flag(trun) ==
    IF \E i \in 1..Len(trun.sample_cts) : trun.sample_cts[i] # 0
    THEN [trun EXCEPT !.flags = BitOr(@, FLAG_SAMPLE_CTS)]
    ELSE trun

write_sample(wr, sample) ==
    LET samples1 == Append(wr.samples, sample.bytes)
        flags == sample_trun_flags(sample)
        has_first == has_first_sample_flags(wr.traf.tfhd, flags)
        trun0 == trun_get_or_insert(wr.traf.trun)
        trun1 == set_first_sample_flags(trun0, has_first, Len(samples1), flags)
        trun2 == push_sample(trun1, sample, Len(samples1), flags)
        trun3 == set_cts_flag(trun2)
    IN  [wr EXCEPT !.samples = samples1,
                   !.traf.tfdt = tfdt_get_or_insert(@, sample),
                   !.traf.trun = Some(trun3)]

(* the value write_sample returns: trun.duration() as u64 *)
(* a wrong write_sample: it returns the duration of the last sample only *)
write_sample_result_last(wr) ==
    Unwrap(wr.traf.trun).sample_durations[Len(Unwrap(wr.traf.trun).sample_durations)]

write_sample_result(wr) == TrunDuration(Unwrap(wr.traf.trun))

(* a wrong duration(): it divides 1_000_000 by the timescale first *)
duration_scale_first(wr) ==
    IF IsSome(wr.traf.trun)
    THEN TrunDuration(Unwrap(wr.traf.trun)) * (1000000 \div wr.timescale)
    ELSE 0

(* duration(), lines 186-193, in microseconds *)
duration(wr) ==
    IF IsSome(wr.traf.trun)
    THEN (TrunDuration(Unwrap(wr.traf.trun)) * 1000000) \div wr.timescale
    ELSE 0

(* a wrong starts_with_keyframe: it looks at the last sample *)
starts_with_keyframe_last(wr) ==
    IF wr.traf.trun = None THEN FALSE
    ELSE LET trun == Unwrap(wr.traf.trun)
         IN  IF trun.sample_flags # <<>>
             THEN HasFlag(trun.sample_flags[Len(trun.sample_flags)], FLAG_SAMPLE_DEPENDS_NO)
             ELSE FALSE

starts_with_keyframe(wr) ==
    IF wr.traf.trun = None THEN FALSE
    ELSE LET trun == Unwrap(wr.traf.trun)
             first_sample_flags ==
                 IF IsSome(trun.first_sample_flags) THEN trun.first_sample_flags
                 ELSE IF trun.sample_flags # <<>> THEN Some(trun.sample_flags[1])
                 ELSE None
         IN  IF IsSome(first_sample_flags)
             THEN HasFlag(Unwrap(first_sample_flags), FLAG_SAMPLE_DEPENDS_NO)
             ELSE FALSE

contains_keyframe(wr) ==
    IF wr.traf.trun = None THEN FALSE
    ELSE \E i \in DOMAIN Unwrap(wr.traf.trun).sample_flags :
             HasFlag(Unwrap(wr.traf.trun).sample_flags[i], FLAG_SAMPLE_DEPENDS_NO)

add_emsg(wr, emsg) == [wr EXCEPT !.emsgs = Append(@, emsg)]


(* the moof built by write_end, lines 280-283 *)
moof_build(wr) == [mfhd |-> wr.mfhd, trafs |-> <<wr.traf>>]

(* a data offset that forgets the mdat header *)
data_offset_no_header(moof_size) == moof_size

(* (moof_size + HEADER_SIZE) as i32, line 289 *)
data_offset_value(moof_size) == moof_size + HEADER_SIZE

(* lines 285-291: the data offset of the first traf's trun is patched *)
patch_data_offset(moof) ==
    IF moof.trafs # <<>> /\ IsSome(moof.trafs[1].trun)
    THEN [moof EXCEPT !.trafs[1].trun =
             Some([Unwrap(@) EXCEPT !.data_offset = Some(data_offset_value(MoofSize(moof)))])]
    ELSE moof

MdatHeaderWrite(wr) ==
    BoxHeaderWrite(FourCC_mdat, HEADER_SIZE + Len(Flatten(wr.samples)))

RECURSIVE EmsgsWrite(_)
EmsgsWrite(emsgs) ==
    IF emsgs = <<>> THEN <<>> ELSE EmsgWrite(emsgs[1]) \o EmsgsWrite(Tail(emsgs))

(* the prft box written ahead of the emsg boxes *)
write_end_bytes_prft_first(wr, moof) ==
    (IF IsSome(wr.prft) THEN PrftWrite(Unwrap(wr.prft)) ELSE <<>>)
        \o EmsgsWrite(wr.emsgs)
        \o MoofWrite(moof)
        \o MdatHeaderWrite(wr)
        \o Flatten(wr.samples)

(* lines 293-309: the bytes write_end writes, in the order it writes them *)
write_end_bytes(wr, moof) ==
    EmsgsWrite(wr.emsgs)
        \o (IF IsSome(wr.prft) THEN PrftWrite(Unwrap(wr.prft)) ELSE <<>>)
        \o MoofWrite(moof)
        \o MdatHeaderWrite(wr)
        \o Flatten(wr.samples)


(* a wrong write_end: what was written before a failure is taken back *)
write_end_sink_rolled_back(wr, moof, room) ==
    LET bytes == write_end_bytes(wr, moof)
    IN  IF Len(bytes) <= room
        THEN [bytes |-> bytes, result |-> [ok |-> TRUE]]
        ELSE [bytes |-> <<>>, result |-> [ok |-> FALSE, kind |-> "IoError", what |-> "WriteZero"]]

(* write_end on a sink that takes room more bytes (a Write over a fixed     *)
(* buffer): every write goes through `?`, so the bytes go out in order up   *)
(* to the first write that fails, whose error is returned at once           *)
write_end_sink(wr, moof, room) ==
    LET bytes == write_end_bytes(wr, moof)
    IN  IF Len(bytes) <= room
        THEN [bytes |-> bytes, result |-> [ok |-> TRUE]]
        ELSE [bytes |-> SubSeq(bytes, 1, room),
              result |-> [ok |-> FALSE, kind |-> "IoError", what |-> "WriteZero"]]

(* ---------------- box codecs (src/mp4box): reading primitives ---------- *)

Eof == Err("IoError", "UnexpectedEof")

Panic(what) == Err("Panic", what)

(* box_start: where the box begins, its 8-byte header having been read *)
box_start(pos) == pos - HEADER_SIZE

(* skip_bytes_to: a seek to an absolute position, which may lie past the end *)
skip_bytes_to(pos) == pos

(* read_box_header_ext: the version byte, then the 24-bit flags *)
read_box_header_ext(buf, pos) ==
    IF pos + 4 > Len(buf) THEN Eof
    ELSE Ok([version |-> buf[pos + 1], flags |-> RdBE(buf, pos + 1, 3)], pos + 4)

(* impl From<FourCC> for u32: u32::from_be_bytes(fourcc.value) *)
FourCCToU32(fourcc) == RdU32(fourcc, 0)

(* impl From<u32> for FourCC: number.to_be_bytes() *)
U32ToFourCC(n) == BE(n, 4)

FourCC_av1C == <<97, 118, 49, 67>>

FourCC_pasp == <<112, 97, 115, 112>>

FourCC_frma == <<102, 114, 109, 97>>

FourCC_schm == <<115, 99, 104, 109>>

(* u8::from(bool) *)
BoolU8(x) == IF x THEN 1 ELSE 0

(* x << n on a u8: the bits shifted out are lost *)
Shl8(x, n) == (x * 2^n) % 256

(* ------------------------ prft: reading back --------------------------- *)

PrftRead(buf, pos, size) ==
    LET start == box_start(pos)
        ext == read_box_header_ext(buf, pos)
    IN  IF ~ext.ok THEN ext
        ELSE IF ext.pos + 12 + (IF ext.v.version = 0 THEN 4 ELSE 8) > Len(buf) THEN Eof
        ELSE Ok([version |-> ext.v.version,
                 flags |-> ext.v.flags,
                 reference_track_id |-> RdU32(buf, ext.pos),
                 ntp_timestamp |-> U64(RdU32(buf, ext.pos + 4), RdU32(buf, ext.pos + 8)),
                 media_time |-> IF ext.v.version = 0
                                THEN U64(0, RdU32(buf, ext.pos + 12))
                                ELSE U64(RdU32(buf, ext.pos + 12), RdU32(buf, ext.pos + 16))],
                skip_bytes_to(start + size))

(* ------------------------ pasp (src/mp4box/pasp.rs) -------------------- *)

PaspSize(pasp) == HEADER_SIZE + 8

PaspWrite(pasp) ==
    BoxHeaderWrite(FourCC_pasp, PaspSize(pasp))
        \o BE(pasp.numerator, 4)
        \o BE(pasp.denumerator, 4)

PaspRead(buf, pos, size) ==
    LET start == box_start(pos)
    IN  IF pos + 8 > Len(buf) THEN Eof
        ELSE Ok([numerator |-> RdU32(buf, pos), denumerator |-> RdU32(buf, pos + 4)],
                skip_bytes_to(start + size))

(* ------------------------ frma (src/mp4box/frma.rs) -------------------- *)

FrmaSize(frma) == HEADER_SIZE + 4

FrmaWrite(frma) ==
    BoxHeaderWrite(FourCC_frma, FrmaSize(frma))
        \o BE(FourCCToU32(frma.data_format), 4)

FrmaRead(buf, pos, size) ==
    LET start == box_start(pos)
    IN  IF pos + 4 > Len(buf) THEN Eof
        ELSE Ok([data_format |-> U32ToFourCC(RdU32(buf, pos))],
                skip_bytes_to(start + size))

(* ------------------------ colr (src/mp4box/colr.rs) -------------------- *)

FourCC_colr == <<99, 111, 108, 114>>

(* "nclx" and "prof" *)
TagNclx == <<110, 99, 108, 120>>

TagProf == <<112, 114, 111, 102>>

ColorSize(color) == IF color.tag = "nclx" THEN 3 * 2 + 1 ELSE Len(color.icc)

ColrSize(colr) == HEADER_SIZE + 4 + ColorSize(colr.color_config)

ColrWrite(colr) ==
    LET color == colr.color_config
    IN  BoxHeaderWrite(FourCC_colr, ColrSize(colr))
            \o (IF color.tag = "nclx" THEN TagNclx ELSE TagProf)
            \o (IF color.tag = "nclx"
                THEN BE(color.color_primaries, 2)
                         \o BE(color.transfer_characteristics, 2)
                         \o BE(color.matrix_coefficients, 2)
                         \o <<IF color.full_range THEN 128 ELSE 0>>
                ELSE color.icc)

(* For "prof" the profile length is size - position, position being the     *)
(* reader's stream position after the tag. The subtraction is in u64: when  *)
(* position exceeds size it panics (overflow checks on) or wraps to a length*)
(* near 2^64 that cannot be allocated; both end the read abnormally.        *)
ColrRead(buf, pos, size) ==
    LET start == box_start(pos)
        tag == SubSeq(buf, pos + 1, pos + 4)
        position == pos + 4
    IN  IF pos + 4 > Len(buf) THEN Eof
        ELSE IF tag = TagProf
        THEN IF size - position < 0 THEN Panic("attempt to subtract with overflow")
             ELSE IF position + (size - position) > Len(buf) THEN Eof
             ELSE Ok([color_config |->
                         [tag |-> "prof",
                          icc |-> SubSeq(buf, position + 1, position + (size - position))]],
                     skip_bytes_to(start + size))
        ELSE IF tag = TagNclx
        THEN IF pos + 4 + 7 > Len(buf) THEN Eof
             ELSE Ok([color_config |->
                         [tag |-> "nclx",
                          color_primaries |-> RdBE(buf, pos + 4, 2),
                          transfer_characteristics |-> RdBE(buf, pos + 6, 2),
                          matrix_coefficients |-> RdBE(buf, pos + 8, 2),
                          full_range |-> buf[pos + 11] \div 128 > 0]],
                     skip_bytes_to(start + size))
        ELSE Err("InvalidData", "invalid colr tag")

(* ------------------------ av1C (src/mp4box/av01.rs) -------------------- *)

Av1CSize(av1c) == HEADER_SIZE + 4 + Len(av1c.sequence_header)

(* the fourth byte is written as 0 whatever the initial presentation delay *)
Av1CWrite(av1c) ==
    BoxHeaderWrite(FourCC_av1C, Av1CSize(av1c))
        \o <<129>>
        \o <<BitOr(Shl8(av1c.profile, 5), av1c.level_idx)>>
        \o <<BitOr(Shl8(av1c.tier, 7),
             BitOr(Shl8(BoolU8(av1c.bit_depth > 8), 6),
             BitOr(Shl8(BoolU8(av1c.bit_depth = 12), 5),
             BitOr(Shl8(BoolU8(av1c.monochrome), 4),
             BitOr(Shl8(av1c.subsampling_x, 3),
             BitOr(Shl8(av1c.subsampling_y, 2),
                   av1c.chroma_sample_position))))))>>
        \o <<0>>
        \o av1c.sequence_header

(* info[k] of the code is info[k + 1] here.  A declared size too small for  *)
(* the four bytes makes start + size - position underflow: the debug build  *)
(* panics on the subtraction, the release build on the allocation.          *)
Av1CRead(buf, pos, size) ==
    LET start == box_start(pos)
    IN  IF pos + 4 > Len(buf) THEN Eof
        ELSE LET info == SubSeq(buf, pos + 1, pos + 4)
                 high_bit_depth == (info[3] \div 64) % 2 = 1
                 bit_depth_twelve == (info[3] \div 32) % 2 = 1
                 initial_presentation_delay_present == (info[4] \div 16) % 2 = 1
                 position == pos + 4
                 sequence_header_length == start + size - position
             IN  IF sequence_header_length < 0 THEN Panic("sequence_header_length")
                 ELSE IF position + sequence_header_length > Len(buf) THEN Eof
                 ELSE Ok([sequence_header |->
                              SubSeq(buf, position + 1, position + sequence_header_length),
                          profile |-> info[2] \div 32,
                          level_idx |-> info[2] % 32,
                          tier |-> info[3] \div 128,
                          bit_depth |-> IF high_bit_depth
                                        THEN (IF bit_depth_twelve THEN 12 ELSE 10)
                                        ELSE 8,
                          monochrome |-> (info[3] \div 16) % 2 = 1,
                          subsampling_x |-> (info[3] \div 8) % 2,
                          subsampling_y |-> (info[3] \div 4) % 2,
                          chroma_sample_position |-> info[3] % 4,
                          initial_presentation_delay_minus_one |->
                              IF initial_presentation_delay_present
                              THEN Some(info[4] % 16)
                              ELSE None],
                         skip_bytes_to(start + size))

(* ------------------------ schm (src/mp4box/schm.rs) -------------------- *)

(* A String is the sequence of its chars' code points. *)
SCHM_BOX_SIZE == HEADER_SIZE + HEADER_EXT_SIZE + 4 + 4

(* the bytes a char takes in a String, which is UTF-8 *)
Utf8Len(c) == IF c < 128 THEN 1 ELSE IF c < 2048 THEN 2 ELSE IF c < 65536 THEN 3 ELSE 4

(* String::len: a length in bytes *)
StrLen(str) == SumSeq([i \in 1..Len(str) |-> Utf8Len(str[i])])

scheme_uri_size(schm) ==
    IF IsSome(schm.scheme_uri) THEN StrLen(Unwrap(schm.scheme_uri)) + 1 ELSE 0

SchmSize(schm) == SCHM_BOX_SIZE + scheme_uri_size(schm)

(* for c in scheme_uri.chars() { writer.write_u8(c as u8) } and the NUL *)
SchmWrite(schm) ==
    BoxHeaderWrite(FourCC_schm, SchmSize(schm))
        \o write_box_header_ext(schm.version, schm.flags)
        \o BE(FourCCToU32(schm.scheme_type), 4)
        \o BE(schm.scheme_version, 4)
        \o (IF IsSome(schm.scheme_uri)
            THEN [i \in 1..Len(Unwrap(schm.scheme_uri)) |-> Unwrap(schm.scheme_uri)[i] % 256]
                     \o <<0>>
            ELSE <<>>)

(* the loop of lines 76-83: bytes up to a NUL, each pushed as a char *)
RECURSIVE ReadUntilNul(_, _)
ReadUntilNul(buf, pos) ==
    IF pos + 1 > Len(buf) THEN Eof
    ELSE IF buf[pos + 1] = 0 THEN Ok(<<>>, pos + 1)
    ELSE LET rest == ReadUntilNul(buf, pos + 1)
         IN  IF ~rest.ok THEN rest ELSE Ok(<<buf[pos + 1]>> \o rest.v, rest.pos)

(* size - SCHM_BOX_SIZE - 1 underflows for a size under 21: the debug build *)
(* panics on the subtraction, the release build on the capacity it gives.   *)
SchmRead(buf, pos, size) ==
    LET start == box_start(pos)
        ext == read_box_header_ext(buf, pos)
    IN  IF ~ext.ok THEN ext
        ELSE IF ext.pos + 8 > Len(buf) THEN Eof
        ELSE LET scheme_type == U32ToFourCC(RdU32(buf, ext.pos))
                 scheme_version == RdU32(buf, ext.pos + 4)
                 uri == ReadUntilNul(buf, ext.pos + 8)
             IN  IF BitAnd(ext.v.flags, 1) = 1
                 THEN IF size - SCHM_BOX_SIZE - 1 < 0 THEN Panic("scheme_uri_size")
                      ELSE IF ~uri.ok THEN uri
                      ELSE Ok([version |-> ext.v.version, flags |-> ext.v.flags,
                               scheme_type |-> scheme_type,
                               scheme_version |-> scheme_version,
                               scheme_uri |-> Some(uri.v)],
                              skip_bytes_to(start + size))
                 ELSE Ok([version |-> ext.v.version, flags |-> ext.v.flags,
                          scheme_type |-> scheme_type,
                          scheme_version |-> scheme_version,
                          scheme_uri |-> None],
                         skip_bytes_to(start + size))

(* ------------------------ tenc (src/mp4box/tenc.rs) -------------------- *)

FourCC_tenc == <<116, 101, 110, 99>>

FourCC_schi == <<115, 99, 104, 105>>

FourCC_sinf == <<115, 105, 110, 102>>

FourCC_Opus == <<79, 112, 117, 115>>

FourCC_dOps == <<100, 79, 112, 115>>

(* skip_box: a seek to the end of the box whose header was just read *)
skip_box(pos, size) == skip_bytes_to(box_start(pos) + size)

TencSize(tenc) ==
    HEADER_SIZE + HEADER_EXT_SIZE + 1 + 1 + 1 + 1 + 16
        + (IF IsSome(tenc.default_constant_iv_size)
           THEN Unwrap(tenc.default_constant_iv_size) + 1
           ELSE 0)

(* the bytes write_box writes; with default_is_protected, a per-sample IV   *)
(* size of 0 and no constant IV it stops after the key id with an error     *)
TencWrite(tenc) ==
    LET both == IsSome(tenc.default_skip_byte_block) /\ IsSome(tenc.default_crypt_byte_block)
        version == IF both THEN 1 ELSE 0
        temp == IF both
                THEN BitOr(Shl8(Unwrap(tenc.default_skip_byte_block), 4),
                           Unwrap(tenc.default_crypt_byte_block))
                ELSE 0
    IN  BoxHeaderWrite(FourCC_tenc, TencSize(tenc))
            \o write_box_header_ext(version, 0)
            \o <<0>>
            \o <<temp>>
            \o <<BoolU8(tenc.default_is_protected)>>
            \o <<tenc.default_per_sample_iv_size>>
            \o tenc.default_kid
            \o (IF tenc.default_is_protected /\ tenc.default_per_sample_iv_size = 0
                   /\ IsSome(tenc.default_constant_iv_size) /\ IsSome(tenc.default_constant_iv)
                THEN <<Unwrap(tenc.default_constant_iv_size)>>
                         \o SubSeq(Unwrap(tenc.default_constant_iv), 1,
                                   Unwrap(tenc.default_constant_iv_size))
                ELSE <<>>)

(* a wrong write_box: a missing constant IV is passed over in silence *)
TencWriteResult_lenient(tenc) == Ok(TencSize(tenc), Len(TencWrite(tenc)))

(* what write_box returns: Ok(size), or the InvalidData error after the key *)
(* id was written                                                           *)
TencWriteResult(tenc) ==
    IF /\ tenc.default_is_protected
       /\ tenc.default_per_sample_iv_size = 0
       /\ ~(IsSome(tenc.default_constant_iv_size) /\ IsSome(tenc.default_constant_iv))
    THEN Err("InvalidData", "default_constant_iv_size and default_constant_iv must be set")
    ELSE Ok(TencSize(tenc), Len(TencWrite(tenc)))

new_64_bit(data) == [size |-> 8, data |-> data \o [i \in 1..8 |-> 0]]

new_128_bit(data) == [size |-> 16, data |-> data]

new_unprotected ==
    [default_crypt_byte_block |-> None, default_skip_byte_block |-> None,
     default_is_protected |-> FALSE, default_per_sample_iv_size |-> 0,
     default_kid |-> [i \in 1..16 |-> 0],
     default_constant_iv_size |-> None, default_constant_iv |-> None]

new_kid_protected(iv) ==
    [default_crypt_byte_block |-> None, default_skip_byte_block |-> None,
     default_is_protected |-> TRUE, default_per_sample_iv_size |-> iv.size,
     default_kid |-> iv.data,
     default_constant_iv_size |-> None, default_constant_iv |-> None]

new_constant_iv_protected(iv) ==
    [default_crypt_byte_block |-> None, default_skip_byte_block |-> None,
     default_is_protected |-> TRUE, default_per_sample_iv_size |-> 0,
     default_kid |-> [i \in 1..16 |-> 0],
     default_constant_iv_size |-> Some(iv.size), default_constant_iv |-> Some(iv.data)]

(* The constant IV is read byte by byte into a [u8; 16]: each byte is read  *)
(* before it is stored, so a size above 16 ends in an end-of-file error if  *)
(* fewer than 17 bytes follow and in an index panic otherwise.              *)
TencRead(buf, pos, size) ==
    LET start == box_start(pos)
        ext == read_box_header_ext(buf, pos)
    IN  IF ~ext.ok THEN ext
        ELSE IF ext.pos + 20 > Len(buf) THEN Eof
        ELSE LET temp == buf[ext.pos + 2]
                 default_is_protected == buf[ext.pos + 3] = 1
                 default_per_sample_iv_size == buf[ext.pos + 4]
                 p == ext.pos + 20
                 fixed == [default_crypt_byte_block |->
                               IF ext.v.version # 0 THEN Some(temp % 16) ELSE None,
                           default_skip_byte_block |->
                               IF ext.v.version # 0 THEN Some(temp \div 16) ELSE None,
                           default_is_protected |-> default_is_protected,
                           default_per_sample_iv_size |-> default_per_sample_iv_size,
                           default_kid |-> SubSeq(buf, ext.pos + 5, ext.pos + 20),
                           default_constant_iv_size |-> None,
                           default_constant_iv |-> None]
             IN  IF default_is_protected /\ default_per_sample_iv_size = 0
                 THEN IF p + 1 > Len(buf) THEN Eof
                      ELSE LET n == buf[p + 1]
                           IN  IF n <= 16
                               THEN IF p + 1 + n > Len(buf) THEN Eof
                                    ELSE Ok([fixed EXCEPT
                                                !.default_constant_iv_size = Some(n),
                                                !.default_constant_iv =
                                                    Some(SubSeq(buf, p + 2, p + 1 + n)
                                                             \o [i \in 1..(16 - n) |-> 0])],
                                            skip_bytes_to(start + size))
                               ELSE IF p + 1 + 17 > Len(buf) THEN Eof
                               ELSE Panic("default_constant_iv index out of bounds")
                 ELSE Ok(fixed, skip_bytes_to(start + size))

(* ------------------------ schi (src/mp4box/schi.rs) -------------------- *)

SchiSize(schi) == 8 + TencSize(schi.tenc)

SchiWrite(schi) == BoxHeaderWrite(FourCC_schi, SchiSize(schi)) \o TencWrite(schi.tenc)

SchiRead(buf, pos, size) ==
    LET start == box_start(pos)
        header == BoxHeaderRead(buf, pos)
    IN  IF ~header.ok THEN header
        ELSE IF header.v.size > size
        THEN Err("InvalidData", "stsd box contains a box with a larger size than it")
        ELSE IF header.v.name = FourCC_tenc
        THEN LET tenc == TencRead(buf, header.pos, header.v.size)
             IN  IF ~tenc.ok THEN tenc
                 ELSE Ok([tenc |-> tenc.v], skip_bytes_to(start + size))
        ELSE Err("InvalidData", "Invalid box type in SchiBox")

(* ------------------------ sinf (src/mp4box/sinf.rs) -------------------- *)

SinfSize(sinf) ==
    8 + FrmaSize(sinf.frma)
        + (IF IsSome(sinf.schi) THEN SchiSize(Unwrap(sinf.schi)) ELSE 0)
        + (IF IsSome(sinf.schm) THEN SchmSize(Unwrap(sinf.schm)) ELSE 0)

SinfWrite(sinf) ==
    BoxHeaderWrite(FourCC_sinf, SinfSize(sinf))
        \o FrmaWrite(sinf.frma)
        \o (IF IsSome(sinf.schi) THEN SchiWrite(Unwrap(sinf.schi)) ELSE <<>>)
        \o (IF IsSome(sinf.schm) THEN SchmWrite(Unwrap(sinf.schm)) ELSE <<>>)

(* the loop of lines 62-87, from the position current, with the children    *)
(* found so far.  A child that leaves the reader where it was or before     *)
(* (a declared size of 8 or less) makes the loop run for ever: "Hang".      *)
RECURSIVE SinfChildren(_, _, _, _, _)
SinfChildren(buf, current, end, size, found) ==
    IF current >= end THEN Ok(found, current)
    ELSE LET header == BoxHeaderRead(buf, current)
         IN  IF ~header.ok THEN header
             ELSE IF header.v.size > size
             THEN Err("InvalidData", "sinf box contains a box with a larger size than it")
             ELSE LET s == header.v.size
                      child == CASE header.v.name = FourCC_frma -> FrmaRead(buf, header.pos, s)
                                 [] header.v.name = FourCC_schi -> SchiRead(buf, header.pos, s)
                                 [] header.v.name = FourCC_schm -> SchmRead(buf, header.pos, s)
                                 [] OTHER -> Ok(<<>>, skip_box(header.pos, s))
                      found1 == CASE header.v.name = FourCC_frma -> [found EXCEPT !.frma = Some(child.v)]
                                  [] header.v.name = FourCC_schi -> [found EXCEPT !.schi = Some(child.v)]
                                  [] header.v.name = FourCC_schm -> [found EXCEPT !.schm = Some(child.v)]
                                  [] OTHER -> found
                  IN  IF ~child.ok THEN child
                      ELSE IF child.pos <= current THEN Err("Hang", "the loop does not advance")
                      ELSE SinfChildren(buf, child.pos, end, size, found1)

SinfRead(buf, pos, size) ==
    LET start == box_start(pos)
        children == SinfChildren(buf, pos, start + size, size,
                                 [frma |-> None, schi |-> None, schm |-> None])
    IN  IF ~children.ok THEN children
        ELSE IF children.v.frma = None THEN Err("BoxNotFound", FourCC_frma)
        ELSE Ok([frma |-> Unwrap(children.v.frma), schi |-> children.v.schi,
                 schm |-> children.v.schm],
                skip_bytes_to(start + size))

(* ------------------- Opus, dOps (src/mp4box/opus.rs) ------------------- *)

(* A ChannelMappingFamily is [family |-> 0, stereo |-> b] for Family0 and   *)
(* [family |-> 1 or 255, mapping |-> m] for Family1(m) and Unknown(m).      *)
byte_size(cmf) ==
    IF cmf.family = 0 THEN 2 ELSE 4 + Len(cmf.mapping.channel_mapping)

get_channel_count(cmf) ==
    IF cmf.family = 0 THEN (IF cmf.stereo THEN 2 ELSE 1)
    ELSE Len(cmf.mapping.channel_mapping) % 256

(* ChannelMappingFamily::write and ChannelMapping::write *)
ChannelMappingFamilyWrite(cmf) ==
    <<cmf.family>>
        \o (IF cmf.family = 0 THEN <<>>
            ELSE <<cmf.mapping.stream_count, cmf.mapping.coupled_count>>
                     \o cmf.mapping.channel_mapping)

(* ChannelMappingFamily::read and ChannelMapping::read *)
ChannelMappingFamilyRead(buf, pos, channel_count) ==
    IF pos + 1 > Len(buf) THEN Eof
    ELSE IF buf[pos + 1] = 0 THEN Ok([family |-> 0, stereo |-> channel_count = 2], pos + 1)
    ELSE IF pos + 3 + channel_count > Len(buf) THEN Eof
    ELSE Ok([family |-> IF buf[pos + 1] = 1 THEN 1 ELSE 255,
             mapping |-> [stream_count |-> buf[pos + 2],
                          coupled_count |-> buf[pos + 3],
                          channel_mapping |-> SubSeq(buf, pos + 4, pos + 3 + channel_count)]],
            pos + 3 + channel_count)

DopsSize(dops) == HEADER_SIZE + 1 + 2 + 4 + 2 + byte_size(dops.channel_mapping_family)

DopsWrite(dops) ==
    BoxHeaderWrite(FourCC_dOps, DopsSize(dops))
        \o <<dops.version>>
        \o <<get_channel_count(dops.channel_mapping_family)>>
        \o BE(dops.pre_skip, 2)
        \o BE(dops.input_sample_rate, 4)
        \o BE(dops.output_gain, 2)
        \o ChannelMappingFamilyWrite(dops.channel_mapping_family)

(* DopsBox::read_box ends where its last read ended: it has no skip to      *)
(* start + size.  output_gain is an i16.                                    *)
DopsRead(buf, pos, size) ==
    IF pos + 10 > Len(buf) THEN Eof
    ELSE LET cmf == ChannelMappingFamilyRead(buf, pos + 10, buf[pos + 2])
             gain == RdBE(buf, pos + 8, 2)
         IN  IF ~cmf.ok THEN cmf
             ELSE Ok([version |-> buf[pos + 1],
                      pre_skip |-> RdBE(buf, pos + 2, 2),
                      input_sample_rate |-> RdU32(buf, pos + 4),
                      output_gain |-> IF gain >= 32768 THEN gain - 65536 ELSE gain,
                      channel_mapping_family |-> cmf.v],
                     cmf.pos)

OpusSize(opus) == HEADER_SIZE + 8 + 20 + DopsSize(opus.dops)

(* samplerate holds the raw 16.16 value of the FixedPointU16 *)
OpusWrite(opus) ==
    BoxHeaderWrite(FourCC_Opus, OpusSize(opus))
        \o BE(0, 4) \o BE(0, 2)
        \o BE(opus.data_reference_index, 2)
        \o BE(0, 8)
        \o BE(get_channel_count(opus.dops.channel_mapping_family), 2)
        \o BE(opus.samplesize, 2)
        \o BE(0, 4)
        \o BE(opus.samplerate, 4)
        \o DopsWrite(opus.dops)

OpusRead(buf, pos, size) ==
    LET start == box_start(pos)
    IN  IF pos + 28 > Len(buf) THEN Eof
        ELSE LET version == RdBE(buf, pos + 8, 2)
                 p == IF version = 1 THEN pos + 28 + 16 ELSE pos + 28
                 header == BoxHeaderRead(buf, p)
             IN  IF p > Len(buf) THEN Eof
                 ELSE IF ~header.ok THEN header
                 ELSE IF header.v.size > size
                 THEN Err("InvalidData", "opus box contains a box with a larger size than it")
                 ELSE IF header.v.name = FourCC_dOps
                 THEN LET dops == DopsRead(buf, header.pos, header.v.size)
                      IN  IF ~dops.ok THEN dops
                          ELSE Ok([data_reference_index |-> RdBE(buf, pos + 6, 2),
                                   samplesize |-> RdBE(buf, pos + 18, 2),
                                   samplerate |-> RdU32(buf, pos + 24),
                                   dops |-> dops.v],
                                  skip_bytes_to(start + size))
                 ELSE Err("InvalidData", "dops not found")

(* ------------- descriptor length codec (src/mp4box/opus.rs) ------------ *)

(* read_desc: the tag, then up to four length bytes of 7 bits each *)
RECURSIVE read_desc_length(_, _, _, _)
read_desc_length(buf, pos, n, size) ==
    IF n = 4 THEN Ok(size, pos)
    ELSE IF pos + 1 > Len(buf) THEN Eof
    ELSE LET b == buf[pos + 1]
             size1 == size * 128 + (b % 128)   \* at most 28 bits: no u32 overflow
         IN  IF b < 128 THEN Ok(size1, pos + 1)
             ELSE read_desc_length(buf, pos + 1, n + 1, size1)

read_desc(buf, pos) ==
    IF pos + 1 > Len(buf) THEN Eof
    ELSE LET length == read_desc_length(buf, pos + 1, 0, 0)
         IN  IF ~length.ok THEN length
             ELSE Ok([tag |-> buf[pos + 1], size |-> length.v], length.pos)

(* a wrong size_of_length: two bytes up to 0x7FFF *)
size_of_length_wide(size) ==
    IF size <= 127 THEN 1
    ELSE IF size <= 32767 THEN 2
    ELSE IF size <= 2097151 THEN 3
    ELSE 4

size_of_length(size) ==
    IF size <= 127 THEN 1
    ELSE IF size <= 16383 THEN 2
    ELSE IF size <= 2097151 THEN 3
    ELSE 4

(* write_desc for a size under 2^31: the test size as u64 > u32::MAX is     *)
(* false for every u32, so the bytes are always written and the result is   *)
(* always Ok(1 + nbytes)                                                    *)
write_desc(tag, size) ==
    LET nbytes == size_of_length(size)
    IN  [bytes |-> <<tag>> \o
                   [i \in 1..nbytes |->
                       (((size \div (128 ^ (nbytes - i))) % 256) % 128)
                           + (IF i < nbytes THEN 128 ELSE 0)],
         result |-> Ok(1 + nbytes, 1 + nbytes)]

(* --------- CMAF header writer (src/cmaf/cmaf_header_writer.rs) --------- *)

(* The sink of the header writer is kept as the sequence of the top-level   *)
(* boxes written to it, each [name, box]; a Duration is kept in seconds.    *)

FourCC_ftyp == <<102, 116, 121, 112>>

FourCC_moov == <<109, 111, 111, 118>>

(* Mp4TrackWriter::new: the trak of a track that holds no sample yet *)
Mp4TrackWriterNew(track_id, config) ==
    [trak |-> [tkhd |-> [track_id |-> track_id, duration |-> U64(0, 0)],
               mdia |-> [mdhd |-> [timescale |-> config.timescale,
                                   duration |-> U64(0, 0)]]],
     track_type |-> config.track_type]

MoovDefault ==
    [mvhd |-> [version |-> 0, timescale |-> 1000, duration |-> U64(0, 0),
               next_track_id |-> 1],
     traks |-> <<>>, mvex |-> None]

header_write_start(config, given) ==
    [open |-> TRUE,
     writer |-> <<[name |-> FourCC_ftyp,
                   box |-> [major_brand |-> config.major_brand,
                            minor_version |-> config.minor_version,
                            compatible_brands |-> config.compatible_brands]]>>,
     tracks |-> <<>>,
     timescale |-> config.timescale,
     duration |-> IF IsSome(given) THEN Unwrap(given) ELSE 0,
     ends |-> 0]

(* a wrong add_track: the first track gets the id 0 *)
add_track_zero_based(h, config) ==
    [h EXCEPT !.tracks = Append(@, Mp4TrackWriterNew(Len(h.tracks), config))]

(* a wrong add_track: it writes the trak of the new track at once *)
add_track_eager(h, config) ==
    [h EXCEPT !.tracks = Append(@, Mp4TrackWriterNew(Len(h.tracks) + 1, config)),
              !.writer = Append(@, [name |-> <<116, 114, 97, 107>>,
                                    box |-> Mp4TrackWriterNew(Len(h.tracks) + 1, config).trak])]

add_track(h, config) ==
    [h EXCEPT !.tracks = Append(@, Mp4TrackWriterNew(Len(h.tracks) + 1, config))]

(* self.duration.as_secs() * self.timescale as u64 *)
media_duration(h) == MulU64(h.duration, h.timescale)

(* a wrong version test: a duration of 2^32 - 1 already gives version 1 *)
mvhd_version_inclusive(total) ==
    IF total.hi # 0 \/ total.lo = -1 THEN 1 ELSE MoovDefault.mvhd.version

(* lines 128-130: moov.mvhd.duration > (u32::MAX as u64) *)
mvhd_version(total) == IF total.hi # 0 THEN 1 ELSE MoovDefault.mvhd.version

(* the moov that write_end builds, lines 94-130; Mp4TrackWriter::write_end  *)
(* hands back the trak of the track and writes nothing for a track without  *)
(* samples                                                                  *)
header_moov(h) ==
    LET total == media_duration(h)
    IN  [mvhd |-> [version |-> mvhd_version(total),
                   timescale |-> h.timescale,
                   duration |-> total,
                   next_track_id |-> 2],
         traks |-> [i \in DOMAIN h.tracks |->
                       [h.tracks[i].trak EXCEPT
                           !.tkhd.duration = total,
                           !.mdia.mdhd.duration =
                               MulU64(h.duration, h.tracks[i].trak.mdia.mdhd.timescale)]],
         mvex |-> Some([mehd |-> None,
                        trex |-> [i \in DOMAIN h.tracks |->
                                     [version |-> 0, flags |-> 0, track_id |-> i,
                                      default_sample_description_index |-> 1,
                                      default_sample_duration |-> 0,
                                      default_sample_size |-> 0,
                                      default_sample_flags |-> 0]]])]

header_write_end(h) ==
    [h EXCEPT !.writer = Append(@, [name |-> FourCC_moov, box |-> header_moov(h)]),
              !.ends = @ + 1]

(* --------------- Mp4Box, WriteBox, ReadBox: one box of any type -------- *)

box_type(b) ==
    CASE b.kind = "prft" -> FourCC_prft
      [] b.kind = "pasp" -> FourCC_pasp
      [] b.kind = "frma" -> FourCC_frma
      [] b.kind = "av1C" -> FourCC_av1C
      [] b.kind = "schm" -> FourCC_schm
      [] b.kind = "tenc" -> FourCC_tenc
      [] b.kind = "schi" -> FourCC_schi
      [] b.kind = "sinf" -> FourCC_sinf
      [] b.kind = "dOps" -> FourCC_dOps
      [] b.kind = "Opus" -> FourCC_Opus
      [] b.kind = "colr" -> FourCC_colr

box_size(b) ==
    CASE b.kind = "prft" -> PrftSize(b.v)
      [] b.kind = "pasp" -> PaspSize(b.v)
      [] b.kind = "frma" -> FrmaSize(b.v)
      [] b.kind = "av1C" -> Av1CSize(b.v)
      [] b.kind = "schm" -> SchmSize(b.v)
      [] b.kind = "tenc" -> TencSize(b.v)
      [] b.kind = "schi" -> SchiSize(b.v)
      [] b.kind = "sinf" -> SinfSize(b.v)
      [] b.kind = "dOps" -> DopsSize(b.v)
      [] b.kind = "Opus" -> OpusSize(b.v)
      [] b.kind = "colr" -> ColrSize(b.v)

(* the bytes write_box writes; it returns Ok(box_size()) *)
write_box(b) ==
    CASE b.kind = "prft" -> PrftWrite(b.v)
      [] b.kind = "pasp" -> PaspWrite(b.v)
      [] b.kind = "frma" -> FrmaWrite(b.v)
      [] b.kind = "av1C" -> Av1CWrite(b.v)
      [] b.kind = "schm" -> SchmWrite(b.v)
      [] b.kind = "tenc" -> TencWrite(b.v)
      [] b.kind = "schi" -> SchiWrite(b.v)
      [] b.kind = "sinf" -> SinfWrite(b.v)
      [] b.kind = "dOps" -> DopsWrite(b.v)
      [] b.kind = "Opus" -> OpusWrite(b.v)
      [] b.kind = "colr" -> ColrWrite(b.v)

(* T::read_box(reader, size) for the T the header names *)
read_box(name, buf, pos, size) ==
    CASE name = FourCC_prft -> PrftRead(buf, pos, size)
      [] name = FourCC_pasp -> PaspRead(buf, pos, size)
      [] name = FourCC_frma -> FrmaRead(buf, pos, size)
      [] name = FourCC_av1C -> Av1CRead(buf, pos, size)
      [] name = FourCC_schm -> SchmRead(buf, pos, size)
      [] name = FourCC_tenc -> TencRead(buf, pos, size)
      [] name = FourCC_schi -> SchiRead(buf, pos, size)
      [] name = FourCC_sinf -> SinfRead(buf, pos, size)
      [] name = FourCC_dOps -> DopsRead(buf, pos, size)
      [] name = FourCC_Opus -> OpusRead(buf, pos, size)
      [] name = FourCC_colr -> ColrRead(buf, pos, size)
      [] OTHER -> Err("InvalidData", "unknown box type")

(* ------------------------------- inputs -------------------------------- *)

DefaultSampleFlagsSet ==
    {0, FLAG_SAMPLE_DEPENDS_NO, BitOr(FLAG_SAMPLE_DEPENDS_YES, FLAG_SAMPLE_FLAG_IS_NON_SYNC)}

ProducerReferenceTimes == {None, Some([ntp_timestamp |-> U64(0, 1000), media_time |-> U64(0, 500)])}

Configs ==
    [timescale : {1000, 90000}, default_sample_duration : {10}, default_sample_size : {100},
     default_sample_flags : DefaultSampleFlagsSet,
     producer_reference_time : ProducerReferenceTimes]

TrackIds == {1}

SampleBodies ==
    {[start_time |-> 5, duration |-> 10, bytes |-> <<170>>],
     [start_time |-> 9, duration |-> 20, bytes |-> <<187, 204>>]}

RenderingOffsets == {0, -2}

Samples ==
    {[start_time |-> b.start_time, duration |-> b.duration, rendering_offset |-> r,
      is_sync |-> k, bytes |-> b.bytes] :
        b \in SampleBodies, r \in RenderingOffsets, k \in BOOLEAN}

Emsgs ==
    {build_box([timescale |-> 1000, presentation_time |-> 7, event_duration |-> 2,
                id |-> i, data |-> <<i>>]) : i \in 1..2}

SequenceNumbers == {7}

(* the sequences over S of a length up to n *)
SeqsUpTo(S, n) == UNION {[1..k -> S] : k \in 0..n}

PrftBoxes ==
    [version : {0, 1, 2}, flags : {0}, reference_track_id : {1},
     ntp_timestamp : {U64(0, 1000), U64(3, 7)},
     media_time : {U64(0, 500), U64(1, 500)}]

PaspBoxes == [numerator : {1, 16}, denumerator : {1, 9}]

FrmaBoxes == [data_format : {<<97, 118, 99, 49>>, <<109, 112, 52, 97>>}]

Av1CBoxes ==
    [tier : {0, 1}, profile : {0, 2}, level_idx : {0, 13}, bit_depth : {8, 10, 12},
     monochrome : BOOLEAN, subsampling_x : {0, 1}, subsampling_y : {1},
     chroma_sample_position : {0, 2},
     initial_presentation_delay_minus_one : {None, Some(3)},
     sequence_header : SeqsUpTo({10, 11}, MaxSeqHeaderLen)]

(* 'a' and 'e' with an acute accent, which takes two bytes in a String *)
UriChars == {97, 233}

SchmBoxes ==
    [version : {0}, flags : {0, 1}, scheme_type : {<<99, 101, 110, 99>>},
     scheme_version : {65536},
     scheme_uri : {None} \cup {Some(u) : u \in SeqsUpTo(UriChars, MaxUriLen)}]

Boxes ==
    {[kind |-> "prft", v |-> v] : v \in PrftBoxes}
        \cup {[kind |-> "pasp", v |-> v] : v \in PaspBoxes}
        \cup {[kind |-> "frma", v |-> v] : v \in FrmaBoxes}
        \cup {[kind |-> "av1C", v |-> v] : v \in Av1CBoxes}
        \cup {[kind |-> "schm", v |-> v] : v \in SchmBoxes}

HeaderConfigs ==
    [major_brand : {<<105, 115, 111, 54>>}, minor_version : {512},
     compatible_brands : {<<<<105, 115, 111, 54>>, <<99, 109, 102, 99>>>>},
     timescale : {1000, 65536, 65537}]

(* the Option<Duration> given to write_start, in seconds *)
HeaderDurations == {None, Some(2), Some(65535), Some(65536)}

TrackConfigs == [track_type : {"Video", "Audio"}, timescale : {1000, 48000}]

(* the descriptors written: the sizes around every length boundary *)
Descriptors ==
    [tag : {3, 4, 5},
     size : {0, 1, 127, 128, 16383, 16384, 2097151, 2097152,
             268435455, 268435456, 1073741824, 2147483647}]

(* length fields a reader can meet that no write_desc produces *)
CraftedDescriptors ==
    {<<3, 129, 130, 131, 132, 5>>, <<4, 255, 255, 255, 255, 255, 127>>,
     <<5, 128, 0>>, <<3, 129>>}

(* initialization vectors, and the TencBox values written: one per         *)
(* constructor and vector, and every combination of the fields              *)
InitializationVectors ==
    {new_64_bit([i \in 1..8 |-> 16 + i]), new_64_bit([i \in 1..8 |-> 0]),
     new_128_bit([i \in 1..16 |-> 32 + i])}

TencBoxes ==
    {[by |-> "new_unprotected", kind |-> "tenc", v |-> new_unprotected]}
    \cup {[by |-> "new_kid_protected", kind |-> "tenc", v |-> new_kid_protected(iv)] :
             iv \in InitializationVectors}
    \cup {[by |-> "new_constant_iv_protected", kind |-> "tenc",
           v |-> new_constant_iv_protected(iv)] : iv \in InitializationVectors}
    \cup {[by |-> "fields", kind |-> "tenc", v |-> t] :
             t \in [default_crypt_byte_block : {None, Some(1)},
                    default_skip_byte_block : {None, Some(9)},
                    default_is_protected : BOOLEAN,
                    default_per_sample_iv_size : {0, 8},
                    default_kid : {[i \in 1..16 |-> i]},
                    default_constant_iv_size : {None, Some(8), Some(16)},
                    default_constant_iv : {None, Some([i \in 1..16 |-> 64 + i])}]}

(* colr boxes, each written after `at` bytes of the stream *)
ColrBoxes ==
    {[color_config |-> c] :
        c \in [tag : {"nclx"}, color_primaries : {1, 9},
               transfer_characteristics : {1, 16}, matrix_coefficients : {1, 9},
               full_range : BOOLEAN]
              \cup [tag : {"prof"}, icc : {<<>>, <<7>>, <<7, 8>>, <<1, 2, 3, 4, 5>>}]}

(* the bytes a sink takes before its writes fail *)
SinkCapacities == {30, 150}

(* ---- crafted input for the parsers: child boxes laid end to end ------- *)

(* a box type no parser of the crate knows *)
FourCC_free == <<102, 114, 101, 101>>

TencUnprotected == new_unprotected

DopsStereo ==
    [version |-> 0, pre_skip |-> 312, input_sample_rate |-> 16000, output_gain |-> -2,
     channel_mapping_family |-> [family |-> 0, stereo |-> TRUE]]

OpusStereo ==
    [data_reference_index |-> 1, samplesize |-> 16, samplerate |-> 16000 * Pow2_16,
     dops |-> DopsStereo]

(* the bytes of well-formed boxes that serve as children *)
ChildBlobs ==
    {FrmaWrite([data_format |-> <<97, 118, 99, 49>>]),
     SchmWrite([version |-> 0, flags |-> 0, scheme_type |-> <<99, 101, 110, 99>>,
                scheme_version |-> 65536, scheme_uri |-> None]),
     SchiWrite([tenc |-> TencUnprotected]),
     TencWrite(TencUnprotected),
     DopsWrite(DopsStereo),
     BoxHeaderWrite(FourCC_free, 8),
     BoxHeaderWrite(FourCC_free, 9) \o <<255>>}

(* the box with d added to the size its header declares *)
Patched(blob, d) == BE(RdU32(blob, 0) + d, 4) \o SubSeq(blob, 5, Len(blob))

(* A crafted box: a composite of the type name whose children are the      *)
(* blobs, with a declared size short bytes under the bytes it holds, or a   *)
(* single box (name <<>>) whose payload is followed by pad bytes that its   *)
(* declared size covers; trailing bytes follow the box in the buffer.       *)
CraftedBoxes ==
    [name : {FourCC_sinf, FourCC_schi, FourCC_Opus},
     children : SeqsUpTo(ChildBlobs \cup {Patched(b, 4) : b \in ChildBlobs}, MaxChildren),
     short : {0, 4}, pad : {0}, trailing : {0, MaxTrailing}]
        \cup [name : {<<>>}, children : [1..1 -> ChildBlobs],
              short : {0}, pad : {0, 2}, trailing : {0, MaxTrailing}]

(* the fields a composite box holds before its children *)
FixedFields(name) ==
    IF name = FourCC_Opus THEN SubSeq(OpusWrite(OpusStereo), HEADER_SIZE + 1, HEADER_SIZE + 28)
    ELSE <<>>

CraftBytes(c) ==
    IF c.name = <<>>
    THEN Patched(c.children[1], c.pad) \o Repeat(170, c.pad) \o Repeat(187, c.trailing)
    ELSE LET payload == FixedFields(c.name) \o Flatten(c.children)
         IN  BoxHeaderWrite(c.name, HEADER_SIZE + Len(payload) - c.short)
                 \o payload \o Repeat(187, c.trailing)

(* Malformed payloads: a protected tenc box with per-sample IV size 0 whose *)
(* constant-IV size byte is n, followed by `follow` bytes that its declared *)
(* size covers; a schm box with the URI flag set whose declared size ends   *)
(* right after the uri bytes (none of them NUL), followed in the buffer by  *)
(* the trailing bytes.                                                      *)
MalformedBoxes ==
    [kind : {"tenc"}, n : {17, 18, 32, 128, 255}, follow : {0, 16, 17, 18}]
        \cup [kind : {"schm"}, uri : {<<>>, <<97>>, <<97, 98>>, <<97, 98, 99>>},
              trailing : {<<>>, <<0>>, <<120, 0>>, <<120, 121>>, <<120, 121, 0>>}]

MalformedBytes(m) ==
    IF m.kind = "tenc"
    THEN BoxHeaderWrite(FourCC_tenc, HEADER_SIZE + HEADER_EXT_SIZE + 20 + 1 + m.follow)
             \o write_box_header_ext(0, 0)
             \o <<0, 0, 1, 0>> \o [i \in 1..16 |-> i]
             \o <<m.n>> \o Repeat(204, m.follow)
    ELSE BoxHeaderWrite(FourCC_schm, SCHM_BOX_SIZE + Len(m.uri))
             \o write_box_header_ext(0, 1)
             \o <<99, 101, 110, 99>> \o BE(65536, 4)
             \o m.uri \o m.trailing

(* ---------------------------- state machine ---------------------------- *)

(* no box is being written or read *)
CodecIdle ==
    [phase |-> "idle", box |-> None, buf |-> <<>>, written |-> None,
     header |-> None, result |-> None]

(* no header writer exists *)
HeaderIdle ==
    [open |-> FALSE, writer |-> <<>>, tracks |-> <<>>, timescale |-> 0,
     duration |-> 0, ends |-> 0]

(* the calls made on the writer after its first write_end *)
LateOps == Len(hist.written) + Len(hist.added) - hist.early

MayCall == started /\ (hist.ends = <<>> \/ LateOps < MaxLateOps)

Init ==
    /\ started = FALSE
    /\ w = WriterDefault
    /\ sink = <<>>
    /\ hist = [written |-> <<>>, added |-> <<>>, ends |-> <<>>, early |-> 0]
    /\ ret = None
    /\ codec = CodecIdle
    /\ hw = HeaderIdle

WriteStart ==
    /\ ~started
    /\ \E track_id \in TrackIds, config \in Configs :
          w' = write_start(track_id, config)
    /\ started' = TRUE
    /\ UNCHANGED <<sink, hist, ret, codec, hw>>

WriteSample ==
    /\ MayCall
    /\ Len(hist.written) < MaxSamples
    /\ \E sample \in Samples :
          /\ w' = write_sample(w, sample)
          /\ hist' = [hist EXCEPT !.written = Append(@, sample)]
    /\ ret' = Some(write_sample_result(w'))
    /\ UNCHANGED <<started, sink, codec, hw>>

(* a wrong add_emsg: it writes the box to the sink at once *)
AddEmsgEager ==
    /\ MayCall
    /\ Len(hist.added) < MaxEmsgs
    /\ \E emsg \in Emsgs :
          /\ w' = add_emsg(w, emsg)
          /\ hist' = [hist EXCEPT !.added = Append(@, emsg)]
          /\ sink' = sink \o EmsgWrite(emsg)
    /\ UNCHANGED <<started, ret, codec, hw>>

AddEmsg ==
    /\ MayCall
    /\ Len(hist.added) < MaxEmsgs
    /\ \E emsg \in Emsgs :
          /\ w' = add_emsg(w, emsg)
          /\ hist' = [hist EXCEPT !.added = Append(@, emsg)]
    /\ UNCHANGED <<started, sink, ret, codec, hw>>

WriteEnd ==
    /\ started
    /\ Len(hist.ends) < MaxEnds
    /\ \E sequence_number \in SequenceNumbers :
          LET wr == [w EXCEPT !.mfhd.sequence_number = sequence_number]
              moof == patch_data_offset(moof_build(wr))
          IN  /\ w' = wr
              /\ sink' = sink \o write_end_bytes(wr, moof)
              /\ hist' = [hist EXCEPT !.ends =
                             Append(@, [at |-> Len(sink), w |-> wr, moof |-> moof]),
                                   !.early = IF hist.ends = <<>>
                                             THEN Len(hist.written) + Len(hist.added)
                                             ELSE @]
    /\ UNCHANGED <<started, ret, codec, hw>>

Next == WriteStart \/ WriteSample \/ AddEmsg \/ WriteEnd

Spec == Init /\ [][Next]_vars

(* ------------- one box written, then read back from its bytes ---------- *)

InitBox ==
    /\ started = FALSE
    /\ w = WriterDefault
    /\ sink = <<>>
    /\ hist = [written |-> <<>>, added |-> <<>>, ends |-> <<>>, early |-> 0]
    /\ ret = None
    /\ hw = HeaderIdle
    /\ \E b \in Boxes : codec = [CodecIdle EXCEPT !.phase = "new", !.box = b]

(* b.write_box(&mut buf) on an empty buffer *)
WriteBox ==
    /\ codec.phase = "new"
    /\ codec' = [codec EXCEPT !.phase = "written",
                              !.buf = write_box(codec.box),
                              !.written = Some(box_size(codec.box))]
    /\ UNCHANGED <<started, w, sink, hist, ret, hw>>

(* BoxHeader::read on a cursor at the start of the buffer *)
ReadHeader ==
    /\ codec.phase = "written"
    /\ codec' = [codec EXCEPT !.phase = "header",
                              !.header = BoxHeaderRead(codec.buf, 0)]
    /\ UNCHANGED <<started, w, sink, hist, ret, hw>>

(* read_box(&mut reader, header.size) for the box type the header names *)
ReadBox ==
    /\ codec.phase = "header"
    /\ codec.header.ok
    /\ codec' = [codec EXCEPT !.phase = "read",
                              !.result = read_box(codec.header.v.name, codec.buf,
                                                  codec.header.pos, codec.header.v.size)]
    /\ UNCHANGED <<started, w, sink, hist, ret, hw>>

NextBox == WriteBox \/ ReadHeader \/ ReadBox

SpecBox == InitBox /\ [][NextBox]_vars


(* ------------------- the header writer's calls ------------------------- *)

HeaderWriteStart ==
    /\ ~hw.open
    /\ \E config \in HeaderConfigs, given \in HeaderDurations :
          hw' = header_write_start(config, given)
    /\ UNCHANGED <<started, w, sink, hist, ret, codec>>

AddTrack ==
    /\ hw.open
    /\ Len(hw.tracks) < MaxTracks
    /\ \E config \in TrackConfigs : hw' = add_track(hw, config)
    /\ UNCHANGED <<started, w, sink, hist, ret, codec>>

HeaderWriteEnd ==
    /\ hw.open
    /\ hw.ends < MaxEnds
    /\ hw' = header_write_end(hw)
    /\ UNCHANGED <<started, w, sink, hist, ret, codec>>

NextHeader == HeaderWriteStart \/ AddTrack \/ HeaderWriteEnd

SpecHeader == Init /\ [][NextHeader]_vars

(* ------------- the chunk writer over a sink that can fail -------------- *)

InitFail ==
    /\ started = FALSE
    /\ w = WriterDefault
    /\ sink = <<>>
    /\ \E cap \in SinkCapacities :
          hist = [written |-> <<>>, added |-> <<>>, ends |-> <<>>, early |-> 0, cap |-> cap]
    /\ ret = None
    /\ codec = CodecIdle
    /\ hw = HeaderIdle

(* write_end(sequence_number) on the sink of capacity hist.cap *)
WriteEndFail ==
    /\ started
    /\ Len(hist.ends) < MaxEnds
    /\ \E sequence_number \in SequenceNumbers :
          LET wr == [w EXCEPT !.mfhd.sequence_number = sequence_number]
              moof == patch_data_offset(moof_build(wr))
              out == write_end_sink(wr, moof, hist.cap - Len(sink))
          IN  /\ w' = wr
              /\ sink' = sink \o out.bytes
              /\ hist' = [hist EXCEPT !.ends =
                             Append(@, [at |-> Len(sink), w |-> wr, moof |-> moof,
                                        result |-> out.result]),
                                   !.early = IF hist.ends = <<>>
                                             THEN Len(hist.written) + Len(hist.added)
                                             ELSE @]
    /\ UNCHANGED <<started, ret, codec, hw>>

NextFail == WriteStart \/ WriteSample \/ AddEmsg \/ WriteEndFail

SpecFail == InitFail /\ [][NextFail]_vars

(* ------------- a descriptor header written, then read back ------------- *)

InitDesc ==
    /\ started = FALSE
    /\ w = WriterDefault
    /\ sink = <<>>
    /\ hist = [written |-> <<>>, added |-> <<>>, ends |-> <<>>, early |-> 0]
    /\ ret = None
    /\ hw = HeaderIdle
    /\ \/ \E d \in Descriptors :
             codec = [CodecIdle EXCEPT !.phase = "new", !.box = Some(d)]
       \/ \E bytes \in CraftedDescriptors :
             codec = [CodecIdle EXCEPT !.phase = "written", !.buf = bytes]

(* write_desc(&mut buf, tag, size) on an empty buffer *)
WriteDesc ==
    /\ codec.phase = "new"
    /\ codec' = [codec EXCEPT
                    !.phase = "written",
                    !.buf = write_desc(Unwrap(codec.box).tag, Unwrap(codec.box).size).bytes,
                    !.written = Some(write_desc(Unwrap(codec.box).tag,
                                                Unwrap(codec.box).size).result)]
    /\ UNCHANGED <<started, w, sink, hist, ret, hw>>

(* read_desc on a cursor at the start of the buffer *)
ReadDesc ==
    /\ codec.phase = "written"
    /\ codec' = [codec EXCEPT !.phase = "read", !.result = read_desc(codec.buf, 0)]
    /\ UNCHANGED <<started, w, sink, hist, ret, hw>>

NextDesc == WriteDesc \/ ReadDesc

SpecDesc == InitDesc /\ [][NextDesc]_vars

(* ----------------------- a TencBox written out ------------------------- *)

InitTenc ==
    /\ started = FALSE
    /\ w = WriterDefault
    /\ sink = <<>>
    /\ hist = [written |-> <<>>, added |-> <<>>, ends |-> <<>>, early |-> 0]
    /\ ret = None
    /\ hw = HeaderIdle
    /\ \E b \in TencBoxes : codec = [CodecIdle EXCEPT !.phase = "new", !.box = b]

(* b.write_box(&mut buf) on an empty buffer, with the value it returns *)
WriteTenc ==
    /\ codec.phase = "new"
    /\ codec' = [codec EXCEPT !.phase = "written",
                              !.buf = TencWrite(codec.box.v),
                              !.written = Some(TencWriteResult(codec.box.v))]
    /\ UNCHANGED <<started, w, sink, hist, ret, hw>>

NextTenc == WriteTenc \/ ReadHeader \/ ReadBox

SpecTenc == InitTenc /\ [][NextTenc]_vars

(* ------------- a colr box written and read inside a stream ------------- *)

InitColr ==
    /\ started = FALSE
    /\ w = WriterDefault
    /\ sink = <<>>
    /\ hist = [written |-> <<>>, added |-> <<>>, ends |-> <<>>, early |-> 0]
    /\ ret = None
    /\ hw = HeaderIdle
    /\ \E b \in ColrBoxes, at \in 0..MaxOffset :
          codec = [CodecIdle EXCEPT !.phase = "new",
                                    !.box = [kind |-> "colr", v |-> b, at |-> at]]

(* b.write_box(&mut buf) on a buffer that already holds `at` bytes *)
WriteColr ==
    /\ codec.phase = "new"
    /\ codec' = [codec EXCEPT !.phase = "written",
                              !.buf = Repeat(0, codec.box.at) \o ColrWrite(codec.box.v),
                              !.written = Some(ColrSize(codec.box.v))]
    /\ UNCHANGED <<started, w, sink, hist, ret, hw>>

(* BoxHeader::read on a cursor placed where the box begins *)
ReadColrHeader ==
    /\ codec.phase = "written"
    /\ codec' = [codec EXCEPT !.phase = "header",
                              !.header = BoxHeaderRead(codec.buf, codec.box.at)]
    /\ UNCHANGED <<started, w, sink, hist, ret, hw>>

NextColr == WriteColr \/ ReadColrHeader \/ ReadBox

SpecColr == InitColr /\ [][NextColr]_vars

(* ---------------- a crafted buffer read by the parsers ----------------- *)

InitParse ==
    /\ started = FALSE
    /\ w = WriterDefault
    /\ sink = <<>>
    /\ hist = [written |-> <<>>, added |-> <<>>, ends |-> <<>>, early |-> 0]
    /\ ret = None
    /\ hw = HeaderIdle
    /\ \E c \in CraftedBoxes :
          codec = [CodecIdle EXCEPT !.phase = "written", !.box = c, !.buf = CraftBytes(c)]

NextParse == ReadHeader \/ ReadBox

SpecParse == InitParse /\ [][NextParse]_vars

(* ----------------- a malformed payload read by read_box ---------------- *)

InitMalformed ==
    /\ started = FALSE
    /\ w = WriterDefault
    /\ sink = <<>>
    /\ hist = [written |-> <<>>, added |-> <<>>, ends |-> <<>>, early |-> 0]
    /\ ret = None
    /\ hw = HeaderIdle
    /\ \E m \in MalformedBoxes :
          codec = [CodecIdle EXCEPT !.phase = "written", !.box = m,
                                    !.buf = MalformedBytes(m)]

SpecMalformed == InitMalformed /\ [][NextParse]_vars

(* ------------------- reading the sink back, box by box ----------------- *)

(* the boxes that lie one after the other between pos and end *)
RECURSIVE BoxWalk(_, _, _)
BoxWalk(buf, pos, end) ==
    IF pos >= end THEN <<>>
    ELSE LET h == BoxHeaderRead(buf, pos)
         IN  IF ~h.ok \/ h.v.size < HEADER_SIZE \/ pos + h.v.size > end
             THEN <<[name |-> <<>>, start |-> pos, size |-> 0]>>
             ELSE <<[name |-> h.v.name, start |-> pos, size |-> h.v.size]>>
                      \o BoxWalk(buf, pos + h.v.size, end)

Names(boxes) == [i \in DOMAIN boxes |-> boxes[i].name]

HasBox(boxes, name) == \E i \in DOMAIN boxes : boxes[i].name = name

FindBox(boxes, name) == boxes[CHOOSE i \in DOMAIN boxes : boxes[i].name = name]

ChildBoxes(buf, box) == BoxWalk(buf, box.start + HEADER_SIZE, box.start + box.size)

(* where the bytes of the k-th write_end stop *)
SegEnd(k) == IF k < Len(hist.ends) THEN hist.ends[k + 1].at ELSE Len(sink)

TopBoxes(k) == BoxWalk(sink, hist.ends[k].at, SegEnd(k))

BoxBytes(box) == SubSeq(sink, box.start + 1, box.start + box.size)

(* the data offset a reader finds in the bytes of a trun box *)
TrunDataOffsetRead(buf, trunb) ==
    IF HasFlag(RdBE(buf, trunb.start + 9, 3), FLAG_DATA_OFFSET)
    THEN Some(RdU32(buf, trunb.start + 16))
    ELSE None

(* where the children of a composite box start, from the start of the box *)
ChildrenAt(name) == IF name = FourCC_Opus THEN HEADER_SIZE + 28 ELSE HEADER_SIZE

(* the child a composite box must hold *)
RequiredChild(name) ==
    CASE name = FourCC_sinf -> FourCC_frma
      [] name = FourCC_schi -> FourCC_tenc
      [] name = FourCC_Opus -> FourCC_dOps

(* the child types the parser of a composite box decodes *)
KnownChildren(name) ==
    CASE name = FourCC_sinf -> {FourCC_frma, FourCC_schi, FourCC_schm}
      [] name = FourCC_schi -> {FourCC_tenc}
      [] name = FourCC_Opus -> {FourCC_dOps}

(* some child met between pos and end declares a size that passes end *)
RECURSIVE Overruns(_, _, _)
Overruns(buf, pos, end) ==
    IF pos >= end THEN FALSE
    ELSE LET h == BoxHeaderRead(buf, pos)
         IN  IF ~h.ok \/ h.v.size < HEADER_SIZE THEN FALSE
             ELSE IF pos + h.v.size > end THEN TRUE
             ELSE Overruns(buf, pos + h.v.size, end)

(* the buffer read holds a composite box *)
IsComposite ==
    /\ codec.phase = "read"
    /\ codec.header.v.name \in {FourCC_sinf, FourCC_schi, FourCC_Opus}

(* the children of the composite box read, as they lie in the buffer *)
CompositeChildren ==
    BoxWalk(codec.buf, ChildrenAt(codec.header.v.name), codec.header.v.size)

(* the composite box lies in the buffer and its children fill it exactly *)
WellFormed ==
    /\ IsComposite
    /\ codec.header.v.size <= Len(codec.buf)
    /\ ChildrenAt(codec.header.v.name) <= codec.header.v.size
    /\ ~HasBox(CompositeChildren, <<>>)

(* ------------------------------- claims -------------------------------- *)

(* C1: for a fragment with at least one sample, whatever the pending emsg  *)
(* boxes and the prft, the data offset found in the written trun equals    *)
(* the size of the written moof plus the 8-byte mdat header, and the first *)
(* sample's payload lies that many bytes after the first byte of the moof. *)
C1_DataOffset ==
    \A k \in DOMAIN hist.ends :
        hist.ends[k].w.samples # <<>> =>
            LET top == TopBoxes(k)
            IN  /\ HasBox(top, FourCC_moof) /\ HasBox(top, FourCC_mdat)
                /\ LET moofb == FindBox(top, FourCC_moof)
                       mdatb == FindBox(top, FourCC_mdat)
                       inmoof == ChildBoxes(sink, moofb)
                   IN  /\ HasBox(inmoof, FourCC_traf)
                       /\ LET intraf == ChildBoxes(sink, FindBox(inmoof, FourCC_traf))
                          IN  /\ HasBox(intraf, FourCC_trun)
                              /\ LET off == TrunDataOffsetRead(sink, FindBox(intraf, FourCC_trun))
                                     first == hist.written[1].bytes
                                 IN  /\ off = Some(moofb.size + HEADER_SIZE)
                                     /\ moofb.size = Len(MoofWrite(hist.ends[k].moof))
                                     /\ mdatb.start = moofb.start + moofb.size
                                     /\ SubSeq(sink, moofb.start + Unwrap(off) + 1,
                                               moofb.start + Unwrap(off) + Len(first)) = first
                                     /\ moofb.start + Unwrap(off) = mdatb.start + HEADER_SIZE

C1_Witness ==
    /\ hist.ends # <<>>
    /\ Len(hist.ends[1].w.samples) = 2
    /\ Len(hist.ends[1].w.emsgs) = 2
    /\ IsSome(hist.ends[1].w.prft)
    /\ Len(sink) > 0

(* C2: write_end emits the emsg boxes in the order of the add_emsg calls,  *)
(* then the prft box if one was configured, then exactly one moof, then    *)
(* one mdat holding the sample payloads in the order of the write_sample   *)
(* calls, and nothing else.                                                *)
C2_Order ==
    \A k \in DOMAIN hist.ends :
        LET e == hist.ends[k]
            top == TopBoxes(k)
            n == Len(e.w.emsgs)
            hasprft == IF IsSome(e.w.prft) THEN 1 ELSE 0
            payload == Flatten([i \in 1..Len(e.w.samples) |-> hist.written[i].bytes])
        IN  /\ Names(top) = Repeat(FourCC_emsg, n)
                                \o (IF hasprft = 1 THEN <<FourCC_prft>> ELSE <<>>)
                                \o <<FourCC_moof, FourCC_mdat>>
            /\ \A i \in 1..n : BoxBytes(top[i]) = EmsgWrite(hist.added[i])
            /\ hasprft = 1 => BoxBytes(top[n + 1]) = PrftWrite(Unwrap(e.w.prft))
            /\ BoxBytes(top[n + hasprft + 1]) = MoofWrite(e.moof)
            /\ top[n + hasprft + 2].size = HEADER_SIZE + Len(payload)
            /\ SubSeq(sink, top[n + hasprft + 2].start + HEADER_SIZE + 1, SegEnd(k)) = payload

C2_Witness ==
    /\ hist.ends # <<>>
    /\ Len(hist.ends[1].w.emsgs) = 2
    /\ hist.ends[1].w.emsgs[1] # hist.ends[1].w.emsgs[2]
    /\ IsSome(hist.ends[1].w.prft)
    /\ Len(hist.ends[1].w.samples) = 2
    /\ hist.ends[1].w.samples[1] # hist.ends[1].w.samples[2]
    /\ Len(sink) > 0


(* C3 (as claimed): once write_end has returned, a further write_sample,   *)
(* add_emsg or write_end adds nothing to the fragment and emits nothing.   *)
C3_ClosedAfterEnd ==
    [][hist.ends # <<>> =>
          /\ w'.samples = w.samples
          /\ w'.emsgs = w.emsgs
          /\ sink' = sink]_vars

(* the flags a reader gives sample i of a traf: the first-sample override  *)
(* for sample 1 when present, else the trun's per-sample flags when its    *)
(* sample-flags bit is set, else the tfhd default                          *)
RecoveredFlags(traf, i) ==
    LET trun == Unwrap(traf.trun)
    IN  IF i = 1 /\ HasFlag(trun.flags, FLAG_FIRST_SAMPLE_FLAGS)
        THEN Unwrap(trun.first_sample_flags)
        ELSE IF HasFlag(trun.flags, FLAG_SAMPLE_FLAGS)
        THEN trun.sample_flags[i]
        ELSE IF HasFlag(traf.tfhd.flags, TFHD_FLAG_DEFAULT_SAMPLE_FLAGS)
        THEN Unwrap(traf.tfhd.default_sample_flags)
        ELSE 0

(* C4 (as claimed): every sample's flags, recovered from the emitted tfhd  *)
(* and trun by the standard rule, are the flags write_sample derived from  *)
(* the sample's is_sync.                                                   *)
C4_FlagsReadBack ==
    \A k \in DOMAIN hist.ends :
        \A i \in 1..Len(hist.ends[k].w.samples) :
            RecoveredFlags(hist.ends[k].moof.trafs[1], i)
                = sample_trun_flags(hist.written[i])

(* C5: with F the tfhd default sample flags, from the first write_sample   *)
(* on: the trun has no first_sample_flags and its FLAG_FIRST_SAMPLE_FLAGS  *)
(* bit is clear if the first sample's derived flags equal F; the bit is    *)
(* set and first_sample_flags is the derived value if they differ.  Later  *)
(* samples leave the override as the first sample made it.                 *)
C5_FirstSampleFlags ==
    hist.written # <<>> =>
        /\ IsSome(w.traf.trun)
        /\ LET trun == Unwrap(w.traf.trun)
               derived == sample_trun_flags(hist.written[1])
           IN  IF Some(derived) = w.traf.tfhd.default_sample_flags
               THEN /\ trun.first_sample_flags = None
                    /\ ~HasFlag(trun.flags, FLAG_FIRST_SAMPLE_FLAGS)
               ELSE /\ trun.first_sample_flags = Some(derived)
                    /\ HasFlag(trun.flags, FLAG_FIRST_SAMPLE_FLAGS)

C5_Witness ==
    /\ Len(hist.written) = 2
    /\ Some(sample_trun_flags(hist.written[1])) = w.traf.tfhd.default_sample_flags
    /\ Some(sample_trun_flags(hist.written[2])) # w.traf.tfhd.default_sample_flags
    /\ Unwrap(w.traf.trun).first_sample_flags = None

(* C6: after every write_sample the trun's FLAG_SAMPLE_CTS bit is set if   *)
(* and only if some sample written so far has a non-zero rendering offset. *)
C6_CtsFlag ==
    hist.written # <<>> =>
        /\ IsSome(w.traf.trun)
        /\ HasFlag(Unwrap(w.traf.trun).flags, FLAG_SAMPLE_CTS)
               <=> \E i \in DOMAIN hist.written : hist.written[i].rendering_offset # 0

C6_Witness ==
    /\ Len(hist.written) = 2
    /\ hist.written[1].rendering_offset = 0
    /\ hist.written[2].rendering_offset # 0
    /\ HasFlag(Unwrap(w.traf.trun).flags, FLAG_SAMPLE_CTS)

(* C7: whenever a trun exists, its sample_count is the length of each of   *)
(* sample_durations, sample_sizes, sample_cts and sample_flags and the     *)
(* number of pending payloads, and sample_sizes[i] is the length of the    *)
(* i-th pending payload.                                                   *)
C7_SampleCount ==
    IsSome(w.traf.trun) =>
        LET trun == Unwrap(w.traf.trun)
        IN  /\ trun.sample_count = Len(trun.sample_durations)
            /\ trun.sample_count = Len(trun.sample_sizes)
            /\ trun.sample_count = Len(trun.sample_cts)
            /\ trun.sample_count = Len(trun.sample_flags)
            /\ trun.sample_count = Len(w.samples)
            /\ \A i \in 1..Len(w.samples) : trun.sample_sizes[i] = Len(w.samples[i])

C7_Witness ==
    /\ IsSome(w.traf.trun)
    /\ Unwrap(w.traf.trun).sample_count = 2
    /\ Unwrap(w.traf.trun).sample_sizes = <<1, 2>>
    /\ Unwrap(w.traf.trun).sample_cts[1] = 0

(* C8: the tfdt is absent until the first write_sample, which creates it   *)
(* with that sample's start_time; later samples leave it alone;            *)
(* base_media_decode_time() returns that value, and 0 before any sample.   *)
C8_Tfdt ==
    /\ hist.written = <<>> =>
           /\ w.traf.tfdt = None
           /\ base_media_decode_time(w) = 0
    /\ hist.written # <<>> =>
           /\ IsSome(w.traf.tfdt)
           /\ Unwrap(w.traf.tfdt).base_media_decode_time = hist.written[1].start_time
           /\ base_media_decode_time(w) = hist.written[1].start_time

C8_Witness ==
    /\ Len(hist.written) = 2
    /\ hist.written[1].start_time # hist.written[2].start_time
    /\ base_media_decode_time(w) = hist.written[1].start_time

(* C9 (as claimed): for every box value, write_box, then BoxHeader::read,  *)
(* then read_box on the bytes written give back a value equal to the       *)
(* original.                                                               *)
C9_RoundTrip ==
    /\ codec.phase = "header" =>
           /\ codec.header.ok
           /\ codec.header.v.name = box_type(codec.box)
    /\ codec.phase = "read" =>
           /\ codec.result.ok
           /\ codec.result.v = codec.box.v

(* C10 (as claimed): for every box value, every version included,           *)
(* write_box writes exactly box_size() bytes, returns box_size(), and the   *)
(* size its header declares is box_size().                                  *)
C10_WrittenSize ==
    codec.phase = "written" =>
        /\ Len(codec.buf) = box_size(codec.box)
        /\ codec.written = Some(box_size(codec.box))
        /\ RdU32(codec.buf, 0) = box_size(codec.box)

(* C11 (as claimed): when a child of a composite box (sinf, schi, Opus)     *)
(* declares a size that exceeds the bytes that remain in the parent, the    *)
(* parent's read_box fails with an InvalidData error.                       *)
C11_ChildSizeBound ==
    (IsComposite /\ Overruns(codec.buf, ChildrenAt(codec.header.v.name), codec.header.v.size))
        => (~codec.result.ok /\ codec.result.kind = "InvalidData")

(* C12 (as claimed): a well-formed composite box (sinf, schi, Opus) that    *)
(* holds its required child and a child of a type its parser does not know  *)
(* is read without an error.                                                *)
C12_UnknownChildSkipped ==
    (/\ WellFormed
     /\ HasBox(CompositeChildren, RequiredChild(codec.header.v.name))
     /\ \E i \in DOMAIN CompositeChildren :
           CompositeChildren[i].name \notin KnownChildren(codec.header.v.name))
        => codec.result.ok

(* C13 (as claimed): after a successful read_box(reader, declared_size) the *)
(* reader is at box start + declared_size, whatever bytes the payload ends  *)
(* with.                                                                    *)
C13_PositionAfterRead ==
    (codec.phase = "read" /\ codec.result.ok)
        => codec.result.pos = codec.header.v.size

(* C14 (as claimed): a well-formed composite box without its required child *)
(* (frma in sinf, tenc in schi, dOps in Opus) is refused with the           *)
(* BoxNotFound error that names the child.                                  *)
C14_BoxNotFound ==
    (WellFormed /\ ~HasBox(CompositeChildren, RequiredChild(codec.header.v.name)))
        => (/\ ~codec.result.ok
            /\ codec.result.kind = "BoxNotFound"
            /\ codec.result.what = RequiredChild(codec.header.v.name))

(* C15: write_start, write_sample and add_emsg leave the sink as it is:     *)
(* the sink is empty until the first write_end and only a write_end         *)
(* changes it.                                                              *)
C15_SinkOnlyAtEnd ==
    [][/\ hist.ends = <<>> => sink = <<>>
       /\ hist'.ends = hist.ends => sink' = sink]_vars

C15_Witness ==
    /\ started
    /\ Len(hist.written) = 2
    /\ Len(hist.added) = 2
    /\ hist.ends = <<>>
    /\ sink = <<>>

(* C16: each write_sample returns the sum of the durations of the samples   *)
(* written so far, the current one included, and the values returned do     *)
(* not decrease.                                                            *)
C16_RunningTotal ==
    [][hist'.written # hist.written =>
          /\ ret' = Some(SumSeq([i \in DOMAIN hist'.written |-> hist'.written[i].duration]))
          /\ IsSome(ret) => Unwrap(ret') >= Unwrap(ret)]_vars

C16_Witness ==
    /\ Len(hist.written) = 2
    /\ hist.written[1].duration = 20
    /\ hist.written[2].duration = 10
    /\ ret = Some(30)

(* C17: starts_with_keyframe() is true exactly when a sample was written    *)
(* and the first one written was a sync sample; contains_keyframe() is true *)
(* exactly when some written sample was a sync sample; the first implies    *)
(* the second.                                                              *)
C17_Keyframes ==
    /\ starts_with_keyframe(w) <=> (hist.written # <<>> /\ hist.written[1].is_sync)
    /\ contains_keyframe(w) <=> (\E i \in DOMAIN hist.written : hist.written[i].is_sync)
    /\ starts_with_keyframe(w) => contains_keyframe(w)

C17_Witness ==
    /\ Len(hist.written) = 2
    /\ ~hist.written[1].is_sync
    /\ hist.written[2].is_sync
    /\ ~starts_with_keyframe(w)
    /\ contains_keyframe(w)

(* C18: duration() is the total duration of the samples written, in         *)
(* microseconds, rounded down: the d with                                   *)
(* d * timescale <= total * 1_000_000 < (d + 1) * timescale; it is zero     *)
(* while no sample has been written.                                        *)
C18_DurationMicros ==
    /\ hist.written = <<>> => duration(w) = 0
    /\ hist.written # <<>> =>
           LET total == SumSeq([i \in DOMAIN hist.written |-> hist.written[i].duration])
           IN  /\ duration(w) * w.timescale <= total * 1000000
               /\ total * 1000000 < (duration(w) + 1) * w.timescale

C18_Witness ==
    /\ Len(hist.written) = 2
    /\ w.timescale = 90000
    /\ duration(w) = 333

(* the moov boxes the header writer has written *)
MoovsWritten ==
    [i \in 1..(Len(hw.writer) - 1) |-> hw.writer[i + 1].box]

(* C19: add_track gives the k-th track the id k; every moov that write_end  *)
(* writes holds one trex per track, in track order, with that track's id    *)
(* and with a default sample duration, size and flags of 0.                 *)
C19_TrackIdsAndTrex ==
    /\ \A k \in DOMAIN hw.tracks : hw.tracks[k].trak.tkhd.track_id = k
    /\ hw.ends > 0 =>
           \A m \in DOMAIN MoovsWritten :
               LET moov == MoovsWritten[m]
                   trex == Unwrap(moov.mvex).trex
               IN  /\ Len(trex) = Len(moov.traks)
                   /\ \A i \in DOMAIN trex :
                          /\ trex[i].track_id = moov.traks[i].tkhd.track_id
                          /\ trex[i].track_id = i
                          /\ trex[i].default_sample_duration = 0
                          /\ trex[i].default_sample_size = 0
                          /\ trex[i].default_sample_flags = 0

C19_Witness ==
    /\ hw.ends = 1
    /\ Len(hw.tracks) = 2
    /\ Len(Unwrap(MoovsWritten[1].mvex).trex) = 2
    /\ Unwrap(MoovsWritten[1].mvex).trex[2].track_id = 2

(* C20: nothing is written before write_start; write_start writes the ftyp  *)
(* box; add_track writes nothing; each write_end writes one moov box, so    *)
(* the sink holds the ftyp box and then one moov box per write_end.         *)
C20_FtypThenMoov ==
    /\ ~hw.open => hw.writer = <<>>
    /\ hw.open =>
           /\ Names(hw.writer) = <<FourCC_ftyp>> \o Repeat(FourCC_moov, hw.ends)
           /\ hw.writer[1].box.major_brand = <<105, 115, 111, 54>>
           /\ hw.writer[1].box.minor_version = 512

C20_Witness ==
    /\ hw.open
    /\ Len(hw.tracks) = 2
    /\ hw.ends = 1
    /\ Names(hw.writer) = <<FourCC_ftyp, FourCC_moov>>
    /\ Len(hw.writer[2].box.traks) = 2

(* the greatest of the accumulated media durations of the tracks, which is  *)
(* 0 as long as no track holds a sample                                     *)
MaxTrackDuration ==
    IF \E i \in DOMAIN hw.tracks : hw.tracks[i].trak.tkhd.duration # U64(0, 0)
    THEN CHOOSE d \in {hw.tracks[i].trak.tkhd.duration : i \in DOMAIN hw.tracks} :
             d # U64(0, 0)
    ELSE U64(0, 0)

(* C21 (as claimed): in every moov written, each track header's duration is *)
(* the media duration that track has accumulated from its samples, and the  *)
(* movie duration is the greatest track duration or the duration given to   *)
(* write_start.                                                             *)
C21_Durations ==
    \A m \in DOMAIN MoovsWritten :
        LET moov == MoovsWritten[m]
        IN  /\ \A i \in DOMAIN moov.traks :
                   moov.traks[i].tkhd.duration = hw.tracks[i].trak.tkhd.duration
            /\ moov.mvhd.duration \in {MaxTrackDuration, media_duration(hw)}

(* seconds * timescale exceeds 2^32 - 1, for a timescale under 2^30 *)
ExceedsU32(seconds, timescale) ==
    seconds > 2 * (2147483647 \div timescale)
                  + ((2 * (2147483647 % timescale) + 1) \div timescale)

(* C22: in every moov written the movie header has version 1 when the movie *)
(* duration, seconds * timescale, exceeds 2^32 - 1 and version 0 otherwise. *)
C22_MvhdVersion ==
    \A m \in DOMAIN MoovsWritten :
        /\ MoovsWritten[m].mvhd.version \in {0, 1}
        /\ MoovsWritten[m].mvhd.version = 1 <=> ExceedsU32(hw.duration, hw.timescale)
        /\ MoovsWritten[m].mvhd.duration.hi = 0 <=> ~ExceedsU32(hw.duration, hw.timescale)

C22_Witness ==
    /\ hw.ends = 1
    /\ hw.duration = 65536
    /\ hw.timescale = 65536
    /\ MoovsWritten[1].mvhd.duration = U64(1, 0)
    /\ MoovsWritten[1].mvhd.version = 1

(* C30 (as claimed): in every moov written, next_track_id of the movie      *)
(* header is greater than the id of every track of the moov.                *)
C30_NextTrackId ==
    \A m \in DOMAIN MoovsWritten :
        \A i \in DOMAIN MoovsWritten[m].traks :
            MoovsWritten[m].mvhd.next_track_id > MoovsWritten[m].traks[i].tkhd.track_id

(* C23: for a size of 0 .. 2^28 - 1, read_desc on the bytes of              *)
(* write_desc(tag, size) gives back (tag, size); write_desc writes the      *)
(* tag and the least number of length bytes (1 up to 127, 2 up to 16383, 3  *)
(* up to 0x1FFFFF, else 4); read_desc never consumes more than the tag and  *)
(* 4 length bytes.                                                          *)
C23_DescRoundTrip ==
    /\ (codec.phase \in {"written", "read"} /\ IsSome(codec.box)
        /\ Unwrap(codec.box).size <= 268435455) =>
           LET size == Unwrap(codec.box).size
               least == CHOOSE n \in 1..4 :
                            /\ size < 128 ^ n
                            /\ n > 1 => size >= 128 ^ (n - 1)
           IN  /\ Len(codec.buf) = 1 + least
               /\ Unwrap(codec.written) = Ok(1 + least, 1 + least)
               /\ codec.phase = "read" =>
                      codec.result = Ok([tag |-> Unwrap(codec.box).tag, size |-> size],
                                        1 + least)
    /\ (codec.phase = "read" /\ codec.result.ok) => codec.result.pos <= 5

C23_Witness ==
    /\ codec.phase = "read"
    /\ IsSome(codec.box)
    /\ Unwrap(codec.box).size = 16384
    /\ codec.buf = <<Unwrap(codec.box).tag, 129, 128, 0>>
    /\ codec.result.ok
    /\ codec.result.v.size = 16384

(* C24 (as claimed): write_desc with a size above 2^28 - 1 fails with an    *)
(* InvalidData error.                                                       *)
C24_DescRange ==
    (codec.phase \in {"written", "read"} /\ IsSome(codec.box)
     /\ Unwrap(codec.box).size > 268435455) =>
        /\ ~Unwrap(codec.written).ok
        /\ Unwrap(codec.written).kind = "InvalidData"

(* C26: a PrftBox of version 0 is written with a 32-bit media_time: the     *)
(* box stays version 0, has 28 bytes, holds the low 32 bits of media_time,  *)
(* and the value read back is media_time mod 2^32; a PrftBox of version 1   *)
(* is written with the whole 64 bits and read back unchanged.               *)
C26_PrftMediaTime ==
    (codec.phase \in {"written", "header", "read"} /\ codec.box.kind = "prft") =>
        LET prft == codec.box.v
        IN  /\ prft.version = 0 =>
                /\ Len(codec.buf) = 28
                /\ codec.buf[9] = 0
                /\ SubSeq(codec.buf, 25, 28) = BE(prft.media_time.lo, 4)
                /\ codec.phase = "read" =>
                       /\ codec.result.ok
                       /\ codec.result.v.version = 0
                       /\ codec.result.v.media_time = U64(0, prft.media_time.lo)
            /\ prft.version = 1 =>
                /\ Len(codec.buf) = 32
                /\ codec.buf[9] = 1
                /\ codec.phase = "read" =>
                       /\ codec.result.ok
                       /\ codec.result.v.version = 1
                       /\ codec.result.v.media_time = prft.media_time

C26_Witness ==
    /\ codec.phase = "read"
    /\ codec.box.kind = "prft"
    /\ codec.box.v.version = 0
    /\ codec.box.v.media_time = U64(1, 500)
    /\ codec.result.ok
    /\ codec.result.v.media_time = U64(0, 500)

C29_ProfAtOffset ==
    (/\ codec.phase = "read"
     /\ codec.box.kind = "colr"
     /\ codec.box.v.color_config.tag = "prof") =>
        /\ codec.result.ok
        /\ Len(codec.result.v.color_config.icc) = codec.header.v.size - 12
        /\ codec.result.v = codec.box.v

(* C28 (as claimed): read_box on a malformed payload (a tenc box whose      *)
(* constant-IV size byte exceeds 16, a schm box with the URI flag whose     *)
(* declared size has no room for the terminator or whose URI has no NUL     *)
(* before the declared end) returns an error value: it does not panic, and  *)
(* it does not succeed with bytes from beyond the declared size.            *)
C28_MalformedPayload ==
    (codec.phase = "read" /\ codec.box \in MalformedBoxes) =>
        /\ ~codec.result.ok
        /\ codec.result.kind \in {"InvalidData", "IoError"}

====
